---- MODULE Spec2Model ----
(***************************************************************************)
(* A model of the load-generation scheduler of advanced_benchmark.py:      *)
(* BenchmarkSuite.send_request and the four strategies run_burst_test,     *)
(* run_ramp_test, run_sustained_test and run_concurrent_test, executed by  *)
(* a single-threaded asyncio event loop.                                   *)
(*                                                                         *)
(* One action is one uninterrupted step of a coroutine: it runs from one   *)
(* suspension point (an await that really suspends) to the next.  The      *)
(* event loop runs ready callbacks in FIFO order (`ready`), the network    *)
(* completes in-flight requests in any order (Respond), and the clock      *)
(* `now` advances while no callback is ready (Tick).  The semaphore is     *)
(* asyncio.Semaphore of CPython 3.11: release hands the permit to the      *)
(* first queued waiter.                                                    *)
(*                                                                         *)
(* main() runs the chosen strategies one after the other with its fixed    *)
(* arguments, analyses each run (analyze_results) and prints its report    *)
(* (generate_report); Ctrl+C may interrupt it while a strategy is          *)
(* suspended.  The idval strings of send_request are built character by    *)
(* character.  categorize_performance of analyze_timing.py is a pure       *)
(* function and is called on its own.                                      *)
(*                                                                         *)
(* The analysis functions of both files (analyze_results,                  *)
(* analyze_timing_patterns, detect_outliers, analyze_trend,                *)
(* calculate_statistics, analyze_patterns) are operators that come in      *)
(* pairs: f gives the value returned and f_raises the exceptions the       *)
(* library calls inside f raise when their precondition fails.  The        *)
(* statistics module computes on exact fractions; percentile of            *)
(* calculate_statistics is evaluated in binary floating point with         *)
(* round-to-nearest-even, on a mantissa of FloatPrecision bits.            *)
(***************************************************************************)
EXTENDS Integers, Sequences, FiniteSets, TLC

\* ------------------------------------------------------------------ bounds

\* Largest burst_size drawn for run_burst_test.
MaxBurstSize == 2
\* The non-zero burst_interval drawn for run_burst_test (seconds).
MaxBurstInterval == 1
\* Clock cap of a burst run: the clock stops advancing there.
MaxBurstTime == 2
\* Largest concurrency and total_requests drawn for run_concurrent_test.
MaxConcurrency == 2
MaxRequests == 3
\* Clock cap of a concurrent run.
MaxConcurrentTime == 1
\* Largest |start_rps|, |end_rps|, |rps| and duration drawn for ramp/sustained.
MaxRps == 2
MaxDuration == 2
\* Clock cap of a ramp or sustained run, and cap on the requests it issues.
MaxSeqTime == 4
MaxSeqRequests == 4
\* Ticks the clock may run past the request timeout in a single send_request.
MaxSendSlack == 1
\* Largest request_id drawn for a single send_request.
MaxSendId == 2
\* Largest latency drawn for a request when two runs are compared.
MaxTwinLatency == 1
\* The arguments main() passes to the strategies, scaled down: the code passes
\* burst_size=20, burst_interval=2.0 (line 419), start_rps=5, end_rps=25,
\* duration=30 (line 427), rps=15, duration=20 (line 435), concurrency=30,
\* total_requests=150 (line 443).
MainBurstSize == 1
MainBurstInterval == 1
MainStartRps == 1
MainEndRps == 2
MainRampDuration == 1
MainRps == 1
MainSustainedDuration == 1
MainConcurrency == 1
MainTotalRequests == 2
\* Largest latency drawn for the first request of each run of main().
MaxMainLatency == 1
\* categorize_performance: cv is drawn in steps of CvStep hundredths from
\* -CvStep / 100 up to MaxCvSteps steps, the mean in steps of MeanStep
\* milliseconds up to MaxMeanSteps steps.
MaxCvSteps == 12
MaxMeanSteps == 50
\* Bits of a float's mantissa (53 in CPython), and the longest sample drawn
\* for the statistics functions.
FloatPrecision == 4
MaxSample == 3
\* Largest response time (ms) of a result handed to an analysis function.
MaxTimeMs == 2

\* --------------------------------------------------------- program constants

\* for burst in range(5)
NumBursts == 5
\* aiohttp.ClientTimeout(total=10)
RequestTimeout == 10
\* response_time = (end_time - start_time) * 1000
MsPerSecond == 1000

\* ------------------------------------------------------------------ values

\* Python's None and a present value, as a sequence of length 0 or 1.
None == <<>>
Some(x) == <<x>>

\* dict.get(key, default) on a field that is present (<<v>>) or absent (<<>>).
Get(field, default) == IF field = None THEN default ELSE field[1]

\* What the transport can do with one POST.  kind "body": the response body
\* parsed to a JSON object whose keys "success", "result" and "error" are each
\* present or absent; the other kinds raise inside the try block of
\* send_request, and `exc` is str(e) of the exception raised:
\*   timeout     asyncio.TimeoutError()            str(e) = ""
\*   conn_error  aiohttp.ClientConnectorError      str(e) = "Cannot connect to host"
\*   bad_json    response.json() cannot parse      str(e) = "Expecting value"
\*   non_object  response_data.get on a list/null  str(e) = "no attribute 'get'"
\* bad_json and non_object happen after the status line was received, so they
\* carry an HTTP status.
BodyOutcomes ==
    [kind : {"body"}, status : {200, 500},
     success : {None, Some(TRUE), Some(FALSE)},
     result : {None, Some(TRUE)},
     error : {None, Some(""), Some("invalid id")},
     exc : {""}]

FailureOutcomes ==
    [kind : {"timeout"}, status : {0}, success : {None}, result : {None},
     error : {None}, exc : {""}]
    \cup
    [kind : {"conn_error"}, status : {0}, success : {None}, result : {None},
     error : {None}, exc : {"Cannot connect to host"}]
    \cup
    [kind : {"bad_json"}, status : {200, 500}, success : {None}, result : {None},
     error : {None}, exc : {"Expecting value"}]
    \cup
    [kind : {"non_object"}, status : {200, 500}, success : {None}, result : {None},
     error : {None}, exc : {"no attribute 'get'"}]

AllOutcomes == BodyOutcomes \cup FailureOutcomes

\* The two outcomes drawn inside a strategy run: a successful body and a
\* transport failure.
OkBody ==
    [kind |-> "body", status |-> 200, success |-> Some(TRUE),
     result |-> Some(TRUE), error |-> None, exc |-> ""]

ConnError ==
    [kind |-> "conn_error", status |-> 0, success |-> None,
     result |-> None, error |-> None, exc |-> "Cannot connect to host"]

\* How the server under test behaves during a strategy run: it answers the
\* requests with an even request_id and refuses the connection of those with
\* an odd one ("odd"), or it does either, request by request ("any").  A burst
\* run draws "odd", every other run "any".
ServerBehaviours == {"odd", "any"}

\* ------------------------------------------------------------ send_request

\* The exception path (lines 81-94) taken with the response's HTTP status.
send_request_status_leak(rid, t_start, t_end, o) ==
    IF o.kind = "body"
    THEN [request_id |-> rid, start_time |-> t_start,
          end_time |-> t_end,
          response_time |-> (t_end - t_start) * MsPerSecond,
          status_code |-> o.status,
          success |-> Get(o.success, FALSE),
          result_value |-> Get(o.result, FALSE),
          error |-> o.error,
          queue_time |-> 0, processing_time |-> 0]
    ELSE [request_id |-> rid, start_time |-> t_start,
          end_time |-> t_end,
          response_time |-> (t_end - t_start) * MsPerSecond,
          status_code |-> o.status,
          success |-> FALSE,
          result_value |-> FALSE,
          error |-> Some(o.exc),
          queue_time |-> 0, processing_time |-> 0]

\* The success path with "success" defaulting to True and the exception path
\* dropping the message.
send_request_wrong_fields(rid, t_start, t_end, o) ==
    IF o.kind = "body"
    THEN [request_id |-> rid, start_time |-> t_start,
          end_time |-> t_end,
          response_time |-> (t_end - t_start) * MsPerSecond,
          status_code |-> o.status,
          success |-> Get(o.success, TRUE),
          result_value |-> Get(o.result, FALSE),
          error |-> o.error,
          queue_time |-> 0, processing_time |-> 0]
    ELSE [request_id |-> rid, start_time |-> t_start,
          end_time |-> t_end,
          response_time |-> (t_end - t_start) * MsPerSecond,
          status_code |-> 0,
          success |-> FALSE,
          result_value |-> FALSE,
          error |-> None,
          queue_time |-> 0, processing_time |-> 0]

\* The RequestResult send_request(rid, idval) returns when it read the clock as
\* t_start on entry (line 55) and as t_end when the transport outcome o was
\* observed (line 65 or 82).
send_request(rid, t_start, t_end, o) ==
    IF o.kind = "body"
    THEN [request_id |-> rid, start_time |-> t_start,
          end_time |-> t_end,
          response_time |-> (t_end - t_start) * MsPerSecond,
          status_code |-> o.status,
          success |-> Get(o.success, FALSE),
          result_value |-> Get(o.result, FALSE),
          error |-> o.error,
          queue_time |-> 0, processing_time |-> 0]
    ELSE [request_id |-> rid, start_time |-> t_start,
          end_time |-> t_end,
          response_time |-> (t_end - t_start) * MsPerSecond,
          status_code |-> 0,
          success |-> FALSE,
          result_value |-> FALSE,
          error |-> Some(o.exc),
          queue_time |-> 0, processing_time |-> 0]

\* ------------------------------------------------------------------- state

VARIABLES
    strategy,         \* "send", "burst", "ramp", "sustained" or "concurrent"
    cfg,              \* the arguments of the strategy's call
    pc,               \* where the strategy's coroutine is suspended
    now,              \* time.time()
    req,              \* request_id -> the state of that send_request call
    ready,            \* the event loop's ready queue: request ids to resume, FIFO
    results,          \* the strategy's `results` list / the list it returns
    semValue,         \* asyncio.Semaphore._value
    waiters,          \* asyncio.Semaphore._waiters, FIFO
    completionOrder,  \* request ids of the current gather (or run) in the
                      \* order their send_request returned
    issueOrder,       \* request ids in the order they entered send_request
    burst,            \* run_burst_test: the loop variable `burst`
    burstStarts,      \* run_burst_test: the values `burst_start` took
    burstEnds,        \* run_burst_test: the values `burst_end` took
    request_id,       \* run_ramp_test / run_sustained_test: `request_id`
    start_time,       \* run_ramp_test / run_sustained_test: `start_time`
    elapsed,          \* run_ramp_test: `elapsed` (line 141)
    delay,            \* ramp / sustained: `delay`, the fraction num / den, den > 0
    sleepFrom,        \* the clock when the pending asyncio.sleep was called
    mainPc,           \* where main() is; "off" when a strategy is called alone
    args,             \* main: the strategies selected on the command line
    all_results,      \* main: `all_results`, one entry per completed strategy
    earlier,          \* history: the requests of the runs that have ended
    firstRun,         \* history: what the first of two compared runs did
    reports,          \* main: the reports printed so far
    call,             \* an analysis function called on its own: its arguments
    ret               \* ... and what it returned

vars == <<strategy, cfg, pc, now, req, ready, results, semValue, waiters,
          completionOrder, issueOrder, burst, burstStarts, burstEnds,
          request_id, start_time, elapsed, delay, sleepFrom,
          mainPc, args, all_results, earlier, firstRun, reports,
          call, ret>>

\* The variables of the semaphore, of the burst loop and of the ramp/sustained
\* loop.
semVars == <<semValue, waiters>>
burstVars == <<burst, burstStarts, burstEnds>>
seqVars == <<request_id, start_time, elapsed, delay>>

\* The variables of main(), the history variables and those of a call of an
\* analysis function, which no strategy touches.
mainVars == <<mainPc, args, all_results, earlier, firstRun, reports,
              call, ret>>

\* No request has been created.
NoRequests == [i \in {} |-> 0]

\* A send_request call that was created (wrapped in a task by gather) and has
\* not run yet.
NewRequest == [st |-> "scheduled", start |-> 0, end |-> 0, out |-> None]

\* The arguments of a call, one record for all strategies (0 where unused),
\* with the environment of the run: how the server behaves and, when the run
\* is driven by given request latencies, the latency of each request (`lat`,
\* empty when the transport answers whenever it likes), and what
\* random.randint returns for the requests of the run (`suffix`).
NoArgs ==
    [send_id |-> 0, burst_size |-> 0, burst_interval |-> 0, start_rps |-> 0,
     end_rps |-> 0, rps |-> 0, duration |-> 0, concurrency |-> 0,
     total_requests |-> 0, server |-> "any", lat |-> <<>>, suffix |-> "low"]

\* The state in which strategy s is called with the arguments callArgs.
RunInit(s, callArgs) ==
    /\ strategy = s
    /\ cfg = callArgs
    /\ pc = "start"
    /\ now = 0
    /\ req = NoRequests
    /\ ready = <<>>
    /\ results = <<>>
    /\ semValue = 0
    /\ waiters = <<>>
    /\ completionOrder = <<>>
    /\ issueOrder = <<>>
    /\ burst = 0
    /\ burstStarts = <<>>
    /\ burstEnds = <<>>
    /\ request_id = 0
    /\ start_time = 0
    /\ elapsed = 0
    /\ delay = [num |-> 0, den |-> 1]
    /\ sleepFrom = 0

\* A strategy called on its own, outside main().
InitRun(s, callArgs) ==
    /\ RunInit(s, callArgs)
    /\ mainPc = "off"
    /\ args = {}
    /\ all_results = <<>>
    /\ earlier = {}
    /\ firstRun = None
    /\ reports = <<>>
    /\ call = None
    /\ ret = None

\* The request ids that have entered send_request and not yet returned.
InFlight == {i \in DOMAIN req : req[i].st \in {"inflight", "responded"}}

\* The request ids whose send_request has returned.
Done == {i \in DOMAIN req : req[i].st = "done"}

\* The sequence lo, lo+1, ..., lo+n-1.
Range(lo, n) == [k \in 1..n |-> lo + k - 1]

\* ------------------------------------------------------------------ idval

\* str(n) of an integer n >= 0: its decimal digits.
DigitOf(d) ==
    CASE d = 0 -> "0" [] d = 1 -> "1" [] d = 2 -> "2" [] d = 3 -> "3"
      [] d = 4 -> "4" [] d = 5 -> "5" [] d = 6 -> "6" [] d = 7 -> "7"
      [] d = 8 -> "8" [] OTHER -> "9"

RECURSIVE Str(_)
Str(n) == IF n < 10 THEN DigitOf(n) ELSE Str(n \div 10) \o DigitOf(n % 10)

\* random.randint(1000, 9999): its two extremes.
RandLow == 1000
RandHigh == 9999

\* What random.randint returns during a run: always the lowest value, always
\* the highest, or the two in turn.
SuffixPatterns == {"low", "high", "mixed"}

\* The value random.randint returned for request i of a run with pattern p.
RandInt(p, i) ==
    CASE p = "low" -> RandLow
      [] p = "high" -> RandHigh
      [] OTHER -> IF i % 2 = 0 THEN RandLow ELSE RandHigh

\* An idval made of the random suffix alone.
IdvalSuffixOnly(s, size, i, r) == Str(r)

\* The idval strategy s sends with request i when randint returned r (lines
\* 113, 149, 175, 205); in a burst run of bursts of `size` requests, request
\* i is request i % size of burst i \div size (line 112).
Idval(s, size, i, r) ==
    CASE s = "burst" ->
           "burst_" \o Str(i \div size) \o "_req_" \o Str(i % size)
               \o "_" \o Str(r)
      [] s = "ramp" -> "ramp_req_" \o Str(i) \o "_" \o Str(r)
      [] s = "sustained" -> "sustained_req_" \o Str(i) \o "_" \o Str(r)
      [] OTHER -> "concurrent_req_" \o Str(i) \o "_" \o Str(r)

\* The idval of request i of the run in progress.
IdvalOf(i) == Idval(strategy, cfg.burst_size, i, RandInt(cfg.suffix, i))

\* ------------------------------------------------------------------ clock

\* Where the clock of the model stops.
ClockCap ==
    CASE strategy = "send" -> RequestTimeout + MaxSendSlack
      [] strategy = "burst" -> MaxBurstTime
      [] strategy = "concurrent" -> MaxConcurrentTime
      [] OTHER -> MaxSeqTime

\* The event loop has a callback to run: a task in the ready queue, or the
\* caller of a gather whose tasks are all done.
LoopBusy ==
    \/ ready # <<>>
    \/ pc = "gather" /\ \A i \in DOMAIN req : req[i].st = "done"

\* A sleep that returns at once, whatever its argument.
SleepOverAtOnce(d) == TRUE

\* The run is driven by given latencies: request i is answered exactly
\* Latency(i) after it was sent (at once when `lat` has no entry for it), every
\* sleep ends the moment it is due, and the code between two awaits takes no
\* time.
Scripted == cfg.lat # <<>>
Latency(i) == IF i + 1 \in DOMAIN cfg.lat THEN cfg.lat[i + 1] ELSE 0

\* The argument of the pending asyncio.sleep (lines 126, 161, 185).
SleepDelay ==
    IF strategy = "burst" THEN [num |-> cfg.burst_interval, den |-> 1] ELSE delay

\* asyncio.sleep(d) called at sleepFrom has expired: d = num / den seconds.
SleepOver(d) == (now - sleepFrom) * d.den >= d.num

\* In a run driven by given latencies the clock advances only while the
\* coroutine is suspended and neither a response nor the end of the sleep is
\* due.
EnvAllowsTick ==
    Scripted =>
        /\ pc \in {"await", "gather", "sleep"}
        /\ pc = "sleep" => ~SleepOver(SleepDelay)
        /\ \A i \in DOMAIN req :
               req[i].st = "inflight" => now - req[i].start < Latency(i)

\* ... and request i is answered once its latency has passed.
EnvAllowsResponse(i) ==
    Scripted => now - req[i].start >= Latency(i)

\* The coroutine sleeps and its timer is not due yet.
SleepPending == pc = "sleep" /\ ~SleepOver(SleepDelay)

\* A ramp/sustained loop has issued as many requests as the model follows:
\* from then on only time passes, until the loop test ends the run.
IssueCapped ==
    /\ strategy \in {"ramp", "sustained"}
    /\ pc = "test"
    /\ request_id >= MaxSeqRequests
    /\ now - start_time < cfg.duration

\* Time passes while the run is not over and the event loop is idle: ready
\* callbacks run without the clock advancing.  A sleep may overrun: the clock
\* can pass the moment a timer is due before the sleeper is resumed.  The
\* clock cap bounds the time the environment may take (latencies, overruns);
\* the time a pending sleep needs always passes, and so does the time up to
\* `duration` once the request cap is reached.  A run driven by given
\* latencies needs no cap.
Tick ==
    /\ pc \notin {"returned", "raised"}
    /\ ~LoopBusy
    /\ EnvAllowsTick
    /\ now < ClockCap \/ SleepPending \/ IssueCapped \/ Scripted
    /\ now' = now + 1
    /\ UNCHANGED <<mainVars, strategy, cfg, pc, req, ready, results, semVars,
                   completionOrder, issueOrder, burstVars, seqVars, sleepFrom>>


\* ---------------------------------------------------- send_request, in steps

\* The outcomes the transport can produce for request i in this run.
Outcomes(i) ==
    CASE strategy = "send" -> AllOutcomes
      [] cfg.server = "odd" -> IF i % 2 = 1 THEN {ConnError} ELSE {OkBody}
      [] OTHER -> {OkBody, ConnError}

\* send_request is entered for request i: start_time = time.time() (line 55),
\* then the coroutine suspends in session.post.
Enter(r, i) ==
    [r EXCEPT ![i].st = "inflight", ![i].start = now]

\* The transport finishes request i with outcome o: the total timeout of
\* RequestTimeout seconds (line 63) fires no earlier than that, any other
\* outcome arrives no later.  end_time = time.time() is read here (line 65 or
\* 82) and the coroutine awaiting it becomes ready.
RespondTo(i) ==
    \E o \in Outcomes(i) :
        /\ i \in DOMAIN req
        /\ req[i].st = "inflight"
        /\ EnvAllowsResponse(i)
        /\ IF o.kind = "timeout"
           THEN now - req[i].start >= RequestTimeout
           ELSE now - req[i].start <= RequestTimeout
        /\ req' = [req EXCEPT ![i].st = "responded", ![i].end = now,
                              ![i].out = Some(o)]
        /\ ready' = Append(ready, i)
        /\ UNCHANGED <<mainVars, strategy, cfg, pc, now, results, semVars,
                       completionOrder, issueOrder, burstVars, seqVars,
                       sleepFrom>>

Respond == \E i \in DOMAIN req : RespondTo(i)

\* The RequestResult that request i, whose transport outcome is in, returns.
ResultOf(i) ==
    send_request(i, req[i].start, req[i].end, req[i].out[1])

\* send_request returns ResultOf(i) for request i.
Return(r, i) ==
    [r EXCEPT ![i].st = "done"]

\* -------------------------------------------------- a single send_request

InitSend ==
    \E id \in 0..MaxSendId :
        InitRun("send", [NoArgs EXCEPT !.send_id = id])

\* await self.send_request(request_id, idval), up to its suspension.
SendCall ==
    /\ strategy = "send"
    /\ pc = "start"
    /\ req' = Enter((cfg.send_id :> NewRequest), cfg.send_id)
    /\ issueOrder' = Append(issueOrder, cfg.send_id)
    /\ pc' = "await"
    /\ UNCHANGED <<mainVars, strategy, cfg, now, ready, results, semVars,
                   completionOrder, burstVars, seqVars, sleepFrom>>

\* The caller resumes with the RequestResult.
SendResume ==
    /\ strategy = "send"
    /\ pc = "await"
    /\ ready # <<>>
    /\ LET i == Head(ready) IN
        /\ req' = Return(req, i)
        /\ results' = <<ResultOf(i)>>
        /\ completionOrder' = Append(completionOrder, i)
    /\ ready' = Tail(ready)
    /\ pc' = "returned"
    /\ UNCHANGED <<mainVars, strategy, cfg, now, semVars, issueOrder, burstVars,
                   seqVars, sleepFrom>>

NextSend == SendCall \/ Respond \/ SendResume \/ Tick

SpecSend == InitSend /\ [][NextSend]_vars

\* ------------------------------------------------------- asyncio.gather

\* gather(*tasks) resolves when every one of its tasks is done; with no task
\* at all it is resolved from the start.
GatherResolved(ids) ==
    \A k \in 1..Len(ids) : req[ids[k]].st = "done"

\* The results in the order the tasks finished (as asyncio.as_completed would
\* yield them).
GatherInCompletionOrder(ids) ==
    LET mine == SelectSeq(completionOrder,
                          LAMBDA i : \E k \in 1..Len(ids) : ids[k] = i)
    IN [k \in 1..Len(mine) |-> ResultOf(mine[k])]

\* The results of the tasks that succeeded only.
GatherSuccessfulOnly(ids) ==
    LET ok == SelectSeq(ids, LAMBDA i : req[i].st = "done" /\ ResultOf(i).success)
    IN [k \in 1..Len(ok) |-> ResultOf(ok[k])]

\* The list gather returns: the tasks' results in the order the tasks were
\* passed, whatever order they finished in.
GatherResults(ids) ==
    LET done == SelectSeq(ids, LAMBDA i : req[i].st = "done")
    IN [k \in 1..Len(done) |-> ResultOf(done[k])]

\* --------------------------------------------------- asyncio.Semaphore

\* A limiter that always admits.
NeverLocked == FALSE

\* Semaphore.locked(): no permit is left, or a task is queued for one.
Locked == semValue = 0 \/ waiters # <<>>

\* A release that wakes nobody.
WakeUpNobody(S) == S

\* A release that wakes the task queued last.
WakeUpLast(S) ==
    LET ks == {k \in 1..Len(S.w) : S.r[S.w[k]].st = "waiting"}
    IN IF ks = {}
       THEN S
       ELSE LET j == S.w[CHOOSE k \in ks : \A m \in ks : k >= m]
            IN [S EXCEPT !.v = @ - 1, !.r[j].st = "woken", !.q = Append(@, j)]

\* Semaphore._wake_up_next() on S = [v: _value, w: _waiters, r: req, q: ready]:
\* the first waiter whose future is not done takes a permit and is made ready.
WakeUpNext(S) ==
    LET ks == {k \in 1..Len(S.w) : S.r[S.w[k]].st = "waiting"}
    IN IF ks = {}
       THEN S
       ELSE LET j == S.w[CHOOSE k \in ks : \A m \in ks : k <= m]
            IN [S EXCEPT !.v = @ - 1, !.r[j].st = "woken", !.q = Append(@, j)]

\* A release that hands over a permit without returning it first.
ReleaseKeepsPermit(S) == WakeUpNext(S)

\* Semaphore.release(): the permit is returned, then handed to the next waiter.
Release(S) == WakeUpNext([S EXCEPT !.v = @ + 1])

\* --------------------------------------------------------- a task's step

\* The event loop runs the first ready task up to its next suspension.
\*   scheduled: the task starts.  In run_concurrent_test it is limited_request:
\*              `async with semaphore` takes a permit and enters send_request,
\*              or queues on the semaphore; in run_burst_test it is
\*              send_request itself.
\*   woken:     acquire() resumes holding the permit handed to it, leaves the
\*              queue, and send_request is entered.
\*   responded: send_request returns its RequestResult; limited_request then
\*              releases the permit; the task is done.
TaskStep ==
    /\ strategy \in {"burst", "concurrent"}
    /\ ready # <<>>
    /\ LET i == Head(ready)
           S0 == [v |-> semValue, w |-> waiters, r |-> req, q |-> Tail(ready)]
       IN CASE req[i].st = "scheduled" /\ strategy = "burst" ->
                 /\ req' = Enter(req, i)
                 /\ ready' = Tail(ready)
                 /\ issueOrder' = Append(issueOrder, i)
                 /\ UNCHANGED <<semVars, completionOrder>>
            [] req[i].st = "scheduled" /\ strategy = "concurrent" ->
                 IF ~Locked
                 THEN /\ semValue' = semValue - 1
                      /\ req' = Enter(req, i)
                      /\ ready' = Tail(ready)
                      /\ issueOrder' = Append(issueOrder, i)
                      /\ UNCHANGED <<waiters, completionOrder>>
                 ELSE /\ waiters' = Append(waiters, i)
                      /\ req' = [req EXCEPT ![i].st = "waiting"]
                      /\ ready' = Tail(ready)
                      /\ UNCHANGED <<semValue, issueOrder, completionOrder>>
            [] req[i].st = "woken" ->
                 LET S1 == [S0 EXCEPT !.w = SelectSeq(@, LAMBDA j : j # i)]
                     S2 == IF S1.v > 0 THEN WakeUpNext(S1) ELSE S1
                 IN /\ semValue' = S2.v
                    /\ waiters' = S2.w
                    /\ req' = Enter(S2.r, i)
                    /\ ready' = S2.q
                    /\ issueOrder' = Append(issueOrder, i)
                    /\ UNCHANGED completionOrder
            [] req[i].st = "responded" ->
                 LET S1 == [S0 EXCEPT !.r = Return(req, i)]
                     S2 == IF strategy = "concurrent" THEN Release(S1) ELSE S1
                 IN /\ semValue' = S2.v
                    /\ waiters' = S2.w
                    /\ req' = S2.r
                    /\ ready' = S2.q
                    /\ completionOrder' = Append(completionOrder, i)
                    /\ UNCHANGED issueOrder
    /\ UNCHANGED <<mainVars, strategy, cfg, pc, now, results, burstVars, seqVars,
                   sleepFrom>>

\* ------------------------------------------------------ run_concurrent_test

InitConcurrent ==
    \E c \in 0..MaxConcurrency, n \in 0..MaxRequests :
        InitRun("concurrent",
                [NoArgs EXCEPT !.concurrency = c, !.total_requests = n])

\* The call up to `await asyncio.gather(*tasks)`: the semaphore is created
\* with `concurrency` permits and gather schedules one task per request, in
\* request order.
RunConcurrentTest ==
    /\ strategy = "concurrent"
    /\ pc = "start"
    /\ semValue' = cfg.concurrency
    /\ waiters' = <<>>
    /\ req' = [i \in 0..(cfg.total_requests - 1) |-> NewRequest]
    /\ ready' = Range(0, cfg.total_requests)
    /\ pc' = IF cfg.total_requests = 0 THEN "returned" ELSE "gather"
    /\ UNCHANGED <<mainVars, strategy, cfg, now, results, completionOrder, issueOrder,
                   burstVars, seqVars, sleepFrom>>

\* gather resolves and run_concurrent_test returns its list.
ConcurrentGathered ==
    /\ strategy = "concurrent"
    /\ pc = "gather"
    /\ GatherResolved(Range(0, cfg.total_requests))
    /\ results' = GatherResults(Range(0, cfg.total_requests))
    /\ pc' = "returned"
    /\ UNCHANGED <<mainVars, strategy, cfg, now, req, ready, semVars, completionOrder,
                   issueOrder, burstVars, seqVars, sleepFrom>>

NextConcurrent ==
    RunConcurrentTest \/ TaskStep \/ Respond \/ ConcurrentGathered \/ Tick

SpecConcurrent == InitConcurrent /\ [][NextConcurrent]_vars

\* The event loop runs every ready callback, every issued request gets its
\* outcome, and a resolved gather resumes its caller.
FairConcurrent ==
    /\ WF_vars(RunConcurrentTest)
    /\ WF_vars(TaskStep)
    /\ WF_vars(ConcurrentGathered)
    /\ \A i \in 0..(MaxRequests - 1) : WF_vars(RespondTo(i))

SpecConcurrentFair == SpecConcurrent /\ FairConcurrent

\* ----------------------------------------------------------- run_burst_test

\* `if burst < 4` (line 125): the index of the last burst.
LastBurst == 4

InitBurst ==
    \E n \in 0..MaxBurstSize, d \in {0, MaxBurstInterval} :
        InitRun("burst", [NoArgs EXCEPT !.burst_size = n, !.burst_interval = d,
                                        !.server = "odd"])

\* The request ids of burst b: burst * burst_size + i for i in range(burst_size).
BurstIds(b) == Range(b * cfg.burst_size, cfg.burst_size)

\* A gather that resolves as soon as the tasks are scheduled.
BurstCompleteAtOnce(b) == TRUE

\* `await asyncio.gather(*tasks)` of burst b has resolved.
BurstComplete(b) == GatherResolved(BurstIds(b))

\* `if burst < 4`: burst b is followed by a sleep of burst_interval.
PauseAfter(b) == b < LastBurst

\* The burst loop from the gather of burst b on (lines 118-128): the results
\* are appended, burst_end is read, and the coroutine sleeps for
\* burst_interval before the next burst or, after the last burst, returns.
AfterBurst(b) ==
    /\ results' = results \o GatherResults(BurstIds(b))
    /\ burstEnds' = Append(burstEnds, now)
    /\ IF PauseAfter(b)
       THEN pc' = "sleep" /\ sleepFrom' = now
       ELSE pc' = "returned" /\ UNCHANGED sleepFrom

\* The burst loop from the top of iteration b (lines 105-117): burst_start is
\* read and one send_request task per request of the burst is passed to
\* gather, which schedules them in request order.  With burst_size = 0 gather
\* is resolved at once and the coroutine goes on without suspending.
BeginBurst(b) ==
    /\ burst' = b
    /\ burstStarts' = Append(burstStarts, now)
    /\ completionOrder' = <<>>
    /\ IF cfg.burst_size = 0
       THEN /\ AfterBurst(b)
            /\ UNCHANGED <<req, ready>>
       ELSE /\ req' = [i \in DOMAIN req \cup {BurstIds(b)[k] : k \in 1..cfg.burst_size}
                         |-> IF i \in DOMAIN req THEN req[i] ELSE NewRequest]
            /\ ready' = ready \o BurstIds(b)
            /\ pc' = "gather"
            /\ UNCHANGED <<results, burstEnds, sleepFrom>>

\* run_burst_test is called and runs up to its first suspension.
RunBurstTest ==
    /\ strategy = "burst"
    /\ pc = "start"
    /\ BeginBurst(0)
    /\ UNCHANGED <<mainVars, strategy, cfg, now, semVars, issueOrder, seqVars>>

\* The gather of the current burst resolves and the loop goes on to its sleep
\* or to its return.
BurstGathered ==
    /\ strategy = "burst"
    /\ pc = "gather"
    /\ BurstComplete(burst)
    /\ AfterBurst(burst)
    /\ UNCHANGED <<mainVars, strategy, cfg, now, req, ready, semVars, completionOrder,
                   issueOrder, burst, burstStarts, seqVars>>

\* asyncio.sleep(burst_interval) is over and the next burst begins.
BurstWake ==
    /\ strategy = "burst"
    /\ pc = "sleep"
    /\ SleepOver([num |-> cfg.burst_interval, den |-> 1])
    /\ BeginBurst(burst + 1)
    /\ UNCHANGED <<mainVars, strategy, cfg, now, semVars, issueOrder, seqVars>>

NextBurst ==
    RunBurstTest \/ TaskStep \/ Respond \/ BurstGathered \/ BurstWake \/ Tick

SpecBurst == InitBurst /\ [][NextBurst]_vars

\* ------------------------------------------- run_ramp_test, run_sustained_test

\* The rates drawn for start_rps, end_rps and rps: negative, zero and positive.
Rates == (-1)..MaxRps

InitSequential ==
    \/ \E a \in Rates, b \in Rates, d \in 0..MaxDuration :
        InitRun("ramp", [NoArgs EXCEPT !.start_rps = a, !.end_rps = b,
                                       !.duration = d])
    \/ \E r \in Rates, d \in 0..MaxDuration :
        InitRun("sustained", [NoArgs EXCEPT !.rps = r, !.duration = d])

\* A fraction num / den with den # 0 is positive; its inverse, with a
\* positive denominator.
RatPositive(q) == q.num * q.den > 0
RatInverse(q) ==
    IF q.num > 0 THEN [num |-> q.den, den |-> q.num]
                 ELSE [num |-> -q.den, den |-> -q.num]

\* current_rps = start_rps + (end_rps - start_rps) * progress with
\* progress = elapsed / duration (lines 142-143), as a fraction over duration.
CurrentRps(e) ==
    [num |-> cfg.start_rps * cfg.duration + (cfg.end_rps - cfg.start_rps) * e,
     den |-> cfg.duration]

\* The delay without its guard: 1 / current_rps whatever its sign, 0 for 0.
RampDelayUnguarded(e) ==
    IF CurrentRps(e).num # 0
    THEN RatInverse(CurrentRps(e))
    ELSE [num |-> 0, den |-> 1]

\* A delay of 1 whatever the rate.
RampDelayAlwaysFallback(e) == [num |-> 1, den |-> 1]

\* delay = 1.0 / current_rps if current_rps > 0 else 1.0 (line 146).
RampDelay(e) ==
    IF RatPositive(CurrentRps(e))
    THEN RatInverse(CurrentRps(e))
    ELSE [num |-> 1, den |-> 1]

\* A counter that is never advanced.
NextRequestIdStuck(r) == r

\* request_id += 1 (lines 153, 179).
NextRequestId(r) == r + 1

\* while True.
LoopForever == TRUE

\* while time.time() - start_time < duration (lines 140, 174).
LoopCondition == now - start_time < cfg.duration

\* send_request(request_id, idval) is awaited directly by the loop: it is
\* entered and suspends in the transport.
IssueNext ==
    /\ request_id < MaxSeqRequests
    /\ req' = Enter([i \in DOMAIN req \cup {request_id}
                       |-> IF i \in DOMAIN req THEN req[i] ELSE NewRequest],
                    request_id)
    /\ issueOrder' = Append(issueOrder, request_id)
    /\ pc' = "await"

\* run_ramp_test is called: lines 136-138.
RunRampTest ==
    /\ strategy = "ramp"
    /\ pc = "start"
    /\ start_time' = now
    /\ request_id' = 0
    /\ results' = <<>>
    /\ pc' = "test"
    /\ UNCHANGED <<mainVars, strategy, cfg, now, req, ready, semVars, completionOrder,
                   issueOrder, burstVars, elapsed, delay, sleepFrom>>

\* The loop condition of run_ramp_test reads the clock (line 140).
RampTest ==
    /\ strategy = "ramp"
    /\ pc = "test"
    /\ pc' = IF LoopCondition THEN "body" ELSE "returned"
    /\ UNCHANGED <<mainVars, strategy, cfg, now, req, ready, results, semVars,
                   completionOrder, issueOrder, burstVars, seqVars, sleepFrom>>

\* The loop body of run_ramp_test reads the clock again (line 141), computes
\* the delay and awaits send_request (lines 142-150).
RampBody ==
    /\ strategy = "ramp"
    /\ pc = "body"
    /\ elapsed' = now - start_time
    /\ delay' = RampDelay(now - start_time)
    /\ IssueNext
    /\ UNCHANGED <<mainVars, strategy, cfg, now, ready, results, semVars,
                   completionOrder, burstVars, request_id, start_time,
                   sleepFrom>>

\* run_sustained_test is called: lines 169-172.  delay = 1.0 / rps raises
\* ZeroDivisionError for rps = 0.
RunSustainedTest ==
    /\ strategy = "sustained"
    /\ pc = "start"
    /\ start_time' = now
    /\ request_id' = 0
    /\ results' = <<>>
    /\ IF cfg.rps = 0
       THEN pc' = "raised" /\ UNCHANGED delay
       ELSE pc' = "test" /\ delay' = RatInverse([num |-> cfg.rps, den |-> 1])
    /\ UNCHANGED <<mainVars, strategy, cfg, now, req, ready, semVars, completionOrder,
                   issueOrder, burstVars, elapsed, sleepFrom>>

\* The loop condition of run_sustained_test reads the clock (line 174) and the
\* body awaits send_request (lines 175-176).
SustainedTest ==
    /\ strategy = "sustained"
    /\ pc = "test"
    /\ IF LoopCondition
       THEN IssueNext
       ELSE pc' = "returned" /\ UNCHANGED <<req, issueOrder>>
    /\ UNCHANGED <<mainVars, strategy, cfg, now, ready, results, semVars,
                   completionOrder, burstVars, seqVars, sleepFrom>>

\* send_request returns to the loop: the result is appended, request_id is
\* advanced and the loop sleeps for `delay` (lines 151-161, 177-185).
SeqResume ==
    /\ strategy \in {"ramp", "sustained"}
    /\ pc = "await"
    /\ ready # <<>>
    /\ LET i == Head(ready) IN
        /\ req' = Return(req, i)
        /\ results' = Append(results, ResultOf(i))
        /\ completionOrder' = Append(completionOrder, i)
    /\ ready' = Tail(ready)
    /\ request_id' = NextRequestId(request_id)
    /\ pc' = "sleep"
    /\ sleepFrom' = now
    /\ UNCHANGED <<mainVars, strategy, cfg, now, semVars, issueOrder, burstVars,
                   start_time, elapsed, delay>>

\* asyncio.sleep(delay) is over and the loop goes back to its condition.
SeqWake ==
    /\ strategy \in {"ramp", "sustained"}
    /\ pc = "sleep"
    /\ SleepOver(delay)
    /\ pc' = "test"
    /\ UNCHANGED <<mainVars, strategy, cfg, now, req, ready, results, semVars,
                   completionOrder, issueOrder, burstVars, seqVars, sleepFrom>>

NextSequential ==
    \/ RunRampTest \/ RampTest \/ RampBody
    \/ RunSustainedTest \/ SustainedTest
    \/ Respond \/ SeqResume \/ SeqWake \/ Tick

SpecSequential == InitSequential /\ [][NextSequential]_vars

\* The clock advances, the event loop runs the coroutine whenever it can
\* continue, and every request that was sent gets its outcome.
FairSequential ==
    /\ WF_vars(Tick)
    /\ WF_vars(RunRampTest) /\ WF_vars(RampTest) /\ WF_vars(RampBody)
    /\ WF_vars(RunSustainedTest) /\ WF_vars(SustainedTest)
    /\ WF_vars(SeqResume) /\ WF_vars(SeqWake)
    /\ \A i \in 0..(MaxSeqRequests - 1) : WF_vars(RespondTo(i))

SpecSequentialFair == SpecSequential /\ FairSequential

\* -------------------------------------------- any one of the four strategies

InitStrategy == InitBurst \/ InitConcurrent \/ InitSequential

NextStrategy ==
    \/ RunBurstTest \/ BurstGathered \/ BurstWake
    \/ RunConcurrentTest \/ ConcurrentGathered
    \/ RunRampTest \/ RampTest \/ RampBody
    \/ RunSustainedTest \/ SustainedTest \/ SeqResume \/ SeqWake
    \/ TaskStep \/ Respond \/ Tick

SpecStrategy == InitStrategy /\ [][NextStrategy]_vars

\* ----------------------------------- ramp and sustained at the same rate

\* The latencies drawn for the requests 0, 1, ... of the two runs.
Latencies == [1..MaxSeqRequests -> 0..MaxTwinLatency]

\* run_ramp_test(r, r, d) is called with r > 0; run_sustained_test(r, d) will
\* be called next in the same environment.
InitTwin ==
    \E r \in 1..MaxRps, d \in 0..MaxDuration, l \in Latencies :
        /\ RunInit("ramp", [NoArgs EXCEPT !.start_rps = r, !.end_rps = r,
                                          !.duration = d, !.lat = l])
        /\ mainPc = "first"
        /\ args = {}
        /\ all_results = <<>>
        /\ earlier = {}
        /\ firstRun = None
        /\ reports = <<>>
        /\ call = None
        /\ ret = None

\* A new call starts with no request, an empty ready queue and fresh locals.
FreshRun ==
    /\ pc' = "start"
    /\ req' = NoRequests
    /\ ready' = <<>>
    /\ results' = <<>>
    /\ semValue' = 0
    /\ waiters' = <<>>
    /\ completionOrder' = <<>>
    /\ issueOrder' = <<>>
    /\ burst' = 0
    /\ burstStarts' = <<>>
    /\ burstEnds' = <<>>
    /\ request_id' = 0
    /\ start_time' = 0
    /\ elapsed' = 0
    /\ delay' = [num |-> 0, den |-> 1]
    /\ sleepFrom' = 0

\* The ramp run has returned: what it did is kept, and run_sustained_test is
\* called with the same rate and duration, the clock rewound and the same
\* latencies.
TwinSecondRun ==
    /\ mainPc = "first"
    /\ strategy = "ramp"
    /\ pc = "returned"
    /\ firstRun' = Some([issued |-> issueOrder, results |-> results,
                         delay |-> delay])
    /\ mainPc' = "second"
    /\ strategy' = "sustained"
    /\ cfg' = [NoArgs EXCEPT !.rps = cfg.start_rps, !.duration = cfg.duration,
                             !.lat = cfg.lat]
    /\ now' = 0
    /\ FreshRun
    /\ UNCHANGED <<args, all_results, earlier, reports, call, ret>>

NextTwin == NextSequential \/ TwinSecondRun

SpecTwin == InitTwin /\ [][NextTwin]_vars

\* ----------------------------------------- analyze_results, generate_report

\* min(xs) and max(xs) of a non-empty list.
Min(xs) == CHOOSE m \in {xs[k] : k \in 1..Len(xs)} : \A k \in 1..Len(xs) : m <= xs[k]
Max(xs) == CHOOSE m \in {xs[k] : k \in 1..Len(xs)} : \A k \in 1..Len(xs) : m >= xs[k]

\* Exact fractions num / den with den > 0, as the statistics module computes
\* with before it rounds its result.
Q(n, d) == [num |-> n, den |-> d]
QLess(a, b) == a.num * b.den < b.num * a.den
QSub(a, b) == Q(a.num * b.den - b.num * a.den, a.den * b.den)
QSquare(a) == Q(a.num * a.num, a.den * a.den)

RECURSIVE Sum(_)
Sum(xs) == IF xs = <<>> THEN 0 ELSE Head(xs) + Sum(Tail(xs))

SumOfSquares(xs) == Sum([k \in 1..Len(xs) |-> xs[k] * xs[k]])

\* list.sort(key=...) and sorted(): a stable sort by insertion, on the keys
\* ks of the elements xs.
RECURSIVE SortByKey(_, _)
SortByKey(xs, ks) ==
    IF xs = <<>> THEN <<>>
    ELSE LET n == Len(xs)
             rest == SortByKey(SubSeq(xs, 1, n - 1), SubSeq(ks, 1, n - 1))
             restKeys == SortByKey(SubSeq(ks, 1, n - 1), SubSeq(ks, 1, n - 1))
             at == Cardinality({k \in 1..(n - 1) : restKeys[k] <= ks[n]})
         IN SubSeq(rest, 1, at) \o <<xs[n]>> \o SubSeq(rest, at + 1, n - 1)

Sorted(xs) == SortByKey(xs, xs)

\* The exceptions the library raises when its precondition fails:
\* statistics.mean and min/max need one value, statistics.stdev needs two,
\* a division needs a non-zero divisor, math.sqrt a non-negative argument.
mean_raises(xs) == IF xs = <<>> THEN {"StatisticsError"} ELSE {}
stdev_raises(xs) == IF Len(xs) < 2 THEN {"StatisticsError"} ELSE {}
extreme_raises(xs) == IF xs = <<>> THEN {"ValueError"} ELSE {}
div_raises(d) == IF d = 0 THEN {"ZeroDivisionError"} ELSE {}
sqrt_raises(q) == IF q.num < 0 THEN {"ValueError"} ELSE {}

\* statistics.mean(xs), and the variances: of the sample (statistics.stdev
\* squared, n - 1 in the divisor) and of the population (n in the divisor).
mean(xs) == Q(Sum(xs), Len(xs))
variance(xs) ==
    Q(Len(xs) * SumOfSquares(xs) - Sum(xs) * Sum(xs), Len(xs) * (Len(xs) - 1))
pvariance(xs) ==
    Q(Len(xs) * SumOfSquares(xs) - Sum(xs) * Sum(xs), Len(xs) * Len(xs))

\* A standard deviation is kept as the variance it is the square root of.
stdev(xs) == [sqrt |-> variance(xs)]
pstdev(xs) == [sqrt |-> pvariance(xs)]
ZeroDeviation == [sqrt |-> Q(0, 1)]

\* What a call gives its caller: the value returned, or the exception raised.
Outcome(raises, value) ==
    IF raises = {}
    THEN [raises |-> None, value |-> Some(value)]
    ELSE [raises |-> Some(CHOOSE e \in raises : TRUE), value |-> None]

\* The empty dict and the empty list.
EmptyDict == <<>>
EmptyList == <<>>

\* abs(data[k] - data[k-1]) for k = 1 .. len - 1 (lines 263-266; lines 76-78
\* of analyze_timing.py).
Variations(xs) ==
    [k \in 1..(Len(xs) - 1) |->
        IF xs[k + 1] >= xs[k] THEN xs[k + 1] - xs[k] ELSE xs[k] - xs[k + 1]]

\* ---------------------------------------- detect_outliers, analyze_trend

\* The sample sizes below which detect_outliers and analyze_trend give up.
OutlierMinimum == 3
TrendMinimum == 10

\* abs(value - mean) / std_dev > threshold for std_dev > 0, on the squares.
ZScoreAbove(value, m, var, threshold) ==
    /\ var.num > 0
    /\ QLess(Q(threshold * threshold * var.num, var.den),
             QSquare(QSub(Q(value, 1), m)))

detect_outliers_raises(data) ==
    IF Len(data) < OutlierMinimum
    THEN {}
    ELSE mean_raises(data) \cup stdev_raises(data) \cup div_raises(Len(data))

\* detect_outliers(data) of advanced_benchmark.py with threshold = 2.0
\* (lines 284-302).
detect_outliers(data) ==
    IF Len(data) < OutlierMinimum
    THEN [count |-> 0, percentage |-> Q(0, 1)]
    ELSE LET outliers == SelectSeq([k \in 1..Len(data) |-> k - 1],
                 LAMBDA i : ZScoreAbove(data[i + 1], mean(data),
                                        variance(data), 2))
         IN [count |-> Len(outliers),
             percentage |-> Q(Len(outliers) * 100, Len(data)),
             outliers |-> SubSeq(outliers, 1, Min(<<10, Len(outliers)>>))]

\* The least-squares slope of ys over xs, as its numerator and denominator
\* (lines 314-320; lines 146-153 of analyze_timing.py).
SlopeOf(xs, ys) ==
    [num |-> Len(xs) * Sum([k \in 1..Len(xs) |-> xs[k] * ys[k]])
                 - Sum(xs) * Sum(ys),
     den |-> Len(xs) * SumOfSquares(xs) - Sum(xs) * Sum(xs)]

analyze_trend_raises(data) ==
    IF Len(data) < TrendMinimum
    THEN {}
    ELSE div_raises(SlopeOf([k \in 1..Len(data) |-> k - 1], data).den)

\* analyze_trend(data) (lines 305-327): slope > 0.1, slope < -0.1.
analyze_trend(data) ==
    IF Len(data) < TrendMinimum
    THEN "insufficient_data"
    ELSE LET slope == SlopeOf([k \in 1..Len(data) |-> k - 1], data)
         IN IF 10 * slope.num > slope.den THEN "increasing"
            ELSE IF 10 * slope.num < -slope.den THEN "decreasing"
            ELSE "stable"

\* ------------------------------------------------ analyze_timing_patterns

\* The sample size below which analyze_timing_patterns gives up.
PatternMinimum == 2

\* The response times of the results ordered by start_time (lines 257-260),
\* and those as the results were passed (line 256).
TimesInStartOrder(rs) ==
    SortByKey([k \in 1..Len(rs) |-> rs[k].response_time],
              [k \in 1..Len(rs) |-> rs[k].start_time])
TimesOf(rs) == [k \in 1..Len(rs) |-> rs[k].response_time]

analyze_timing_patterns_raises(rs) ==
    IF Len(rs) < PatternMinimum
    THEN {}
    ELSE LET times == TimesOf(rs)
             variations == Variations(TimesInStartOrder(rs))
         IN (IF variations # <<>>
             THEN extreme_raises(variations) \cup mean_raises(variations)
             ELSE {})
            \cup mean_raises(times)
            \cup (IF times # <<>> /\ mean(times).num > 0
                  THEN stdev_raises(times) \cup div_raises(mean(times).num)
                  ELSE {})
            \cup detect_outliers_raises(times)
            \cup analyze_trend_raises(times)

\* analyze_timing_patterns(results) (lines 250-281).  timing_consistency is
\* 1 - stdev / mean, kept as the two terms of the quotient.
analyze_timing_patterns(rs) ==
    IF Len(rs) < PatternMinimum
    THEN EmptyDict
    ELSE LET times == TimesOf(rs)
             variations == Variations(TimesInStartOrder(rs))
         IN [max_variation |->
                 IF variations # <<>> THEN Max(variations) ELSE 0,
             avg_variation |->
                 IF variations # <<>> THEN mean(variations) ELSE Q(0, 1),
             timing_consistency |->
                 IF mean(times).num > 0
                 THEN [one_minus |-> stdev(times), over |-> mean(times)]
                 ELSE [one_minus |-> ZeroDeviation, over |-> Q(1, 1)],
             outliers |-> detect_outliers(times),
             trending |-> analyze_trend(times)]

\* if len(response_times) > 1 (line 239).
StdevGuardNone(xs) == TRUE
StdevGuard(xs) == Len(xs) > 1

\* analyze_errors(failed): the number of failed results (its "total").
analyze_errors(failed) == [total |-> Len(failed)]

\* analyze_results(rs), a dict as a function from its keys: {} for no result
\* at all (line 214), {"error": ...} when no result succeeded (line 224), and
\* otherwise the statistics (lines 227-247), of which the counts, the extremes
\* of the response times and the error total are kept.
analyze_results(rs) ==
    LET successful == SelectSeq(rs, LAMBDA r : r.success)
        failed == SelectSeq(rs, LAMBDA r : ~r.success)
        response_times == [k \in 1..Len(successful) |-> successful[k].response_time]
    IN IF rs = <<>>
       THEN <<>>
       ELSE IF response_times = <<>>
       THEN [error |-> "No successful requests"]
       ELSE [total_requests |-> Len(rs),
             successful_requests |-> Len(successful),
             failed_requests |-> Len(failed),
             response_times |-> [min |-> Min(response_times),
                                 max |-> Max(response_times),
                                 mean |-> mean(response_times),
                                 std_dev |-> IF StdevGuard(response_times)
                                             THEN stdev(response_times)
                                             ELSE ZeroDeviation],
             timing_analysis |-> analyze_timing_patterns(successful),
             error_analysis |-> analyze_errors(failed)]

\* The exceptions analyze_results(rs) can raise: those of min, max, mean,
\* median and stdev on the response times (lines 232-239) and of
\* analyze_timing_patterns (line 243).
analyze_results_raises(rs) ==
    LET successful == SelectSeq(rs, LAMBDA r : r.success)
        response_times == [k \in 1..Len(successful) |-> successful[k].response_time]
    IN IF rs = <<>> \/ response_times = <<>>
       THEN {}
       ELSE div_raises(Len(rs))
            \cup extreme_raises(response_times)
            \cup mean_raises(response_times)
            \cup (IF StdevGuard(response_times)
                  THEN stdev_raises(response_times)
                  ELSE {})
            \cup analyze_timing_patterns_raises(successful)

\* generate_report(test_name, stats): the one-line failure report when stats
\* has the key "error" (lines 351-352); otherwise stats["response_times"] and
\* stats["timing_analysis"] are read (lines 354-355), which raises KeyError
\* when the key is missing, and the full report is built.
generate_report(test_name, stats) ==
    IF "error" \in DOMAIN stats
    THEN [raises |-> None, failed |-> TRUE, test_name |-> test_name,
          text |-> stats["error"]]
    ELSE IF "response_times" \notin DOMAIN stats
    THEN [raises |-> Some("KeyError: 'response_times'"), failed |-> FALSE,
          test_name |-> test_name, text |-> ""]
    ELSE IF "timing_analysis" \notin DOMAIN stats
    THEN [raises |-> Some("KeyError: 'timing_analysis'"), failed |-> FALSE,
          test_name |-> test_name, text |-> ""]
    ELSE [raises |-> None, failed |-> FALSE, test_name |-> test_name,
          text |-> "Results"]

\* The name main() reports a strategy under (lines 422, 431, 438, 447).
TestName ==
    CASE strategy = "burst" -> "Burst Test"
      [] strategy = "ramp" -> "Ramp Test"
      [] strategy = "sustained" -> "Sustained Test"
      [] strategy = "concurrent" -> "Concurrent Test"
      [] OTHER -> "Request"

\* ------------------------------------------------ floating-point arithmetic

\* A Python float is a binary floating-point number: a value m * 2^e whose
\* mantissa m has at most FloatPrecision bits (53 in CPython), and every
\* arithmetic operation returns the representable number nearest to the
\* exact result, ties going to the even mantissa.  A float is the record
\* [m, e] with 2^(FloatPrecision-1) <= |m| < 2^FloatPrecision, or m = e = 0.
RECURSIVE Pow2(_)
Pow2(k) == IF k <= 0 THEN 1 ELSE 2 * Pow2(k - 1)

Zero == [m |-> 0, e |-> 0]

\* n / b * 2^e with n, b > 0, scaled so that 2^(P-1) <= n / b < 2^P.
RECURSIVE Normalize(_, _, _)
Normalize(n, b, e) ==
    IF n >= Pow2(FloatPrecision) * b THEN Normalize(n, 2 * b, e + 1)
    ELSE IF n < Pow2(FloatPrecision - 1) * b THEN Normalize(2 * n, b, e - 1)
    ELSE [n |-> n, b |-> b, e |-> e]

\* The float nearest to a / b * 2^e (b > 0), ties to even.
Round(a, b, e) ==
    IF a = 0 THEN Zero
    ELSE LET s == IF a > 0 THEN 1 ELSE -1
             z == Normalize(s * a, b, e)
             q == z.n \div z.b
             r == z.n % z.b
             up == 2 * r > z.b \/ (2 * r = z.b /\ q % 2 = 1)
             m == IF up THEN q + 1 ELSE q
         IN IF m = Pow2(FloatPrecision)
            THEN [m |-> s * Pow2(FloatPrecision - 1), e |-> z.e + 1]
            ELSE [m |-> s * m, e |-> z.e]

\* float(i), and i / j for Python ints (the exact quotient, rounded once).
FromInt(i) == Round(i, 1, 0)
IntDiv(i, j) == Round(i, j, 0)

\* x and y as integers over their common exponent.
Aligned(x, y) ==
    LET e == IF x.e < y.e THEN x.e ELSE y.e
    IN [x |-> x.m * Pow2(x.e - e), y |-> y.m * Pow2(y.e - e), e |-> e]

FAdd(x, y) == LET A == Aligned(x, y) IN Round(A.x + A.y, 1, A.e)
FSub(x, y) == LET A == Aligned(x, y) IN Round(A.x - A.y, 1, A.e)
FMul(x, y) == Round(x.m * y.m, 1, x.e + y.e)
FLeq(x, y) == LET A == Aligned(x, y) IN A.x <= A.y

\* int(x) for x >= 0.
Trunc(x) == IF x.e >= 0 THEN x.m * Pow2(x.e) ELSE x.m \div Pow2(-x.e)

\* ---------------------------------- analyze_timing.calculate_statistics

\* The percentiles a caller may ask for, and the response times a sample is
\* made of: the floats of exponent 0.
Percents == 0..100
Times == {[m |-> m, e |-> 0] :
              m \in Pow2(FloatPrecision - 1)..(Pow2(FloatPrecision) - 1)}

\* sorted(response_times) for the samples drawn: the non-decreasing lists.
IsSorted(xs) == \A k \in 1..(Len(xs) - 1) : FLeq(xs[k], xs[k + 1])
SortedSamples ==
    UNION {{xs \in [1..n -> Times] : IsSorted(xs)} : n \in 1..MaxSample}

\* percentile(data, p) of calculate_statistics (lines 53-60); data[k] of the
\* code is data[k + 1] here.
percentile(data, p) ==
    LET index == IntDiv((Len(data) - 1) * p, 100)
        lower == Trunc(index)
        upper == lower + 1
        weight == FSub(index, FromInt(lower))
    IN IF upper >= Len(data)
       THEN data[Len(data)]
       ELSE FAdd(FMul(data[lower + 1], FSub(FromInt(1), weight)),
                 FMul(data[upper + 1], weight))

\* percentile is about to be called on a sorted sample.
InitPercentile ==
    \E xs \in SortedSamples, p \in Percents :
        /\ RunInit("percentile", NoArgs)
        /\ mainPc = "off"
        /\ args = {}
        /\ all_results = <<>>
        /\ earlier = {}
        /\ firstRun = None
        /\ reports = <<>>
        /\ call = Some([data |-> xs, p |-> p])
        /\ ret = None

\* The call returns.
Percentile ==
    /\ strategy = "percentile"
    /\ call # None
    /\ ret = None
    /\ ret' = Some(percentile(call[1].data, call[1].p))
    /\ UNCHANGED <<strategy, cfg, pc, now, req, ready, results, semVars,
                   completionOrder, issueOrder, burstVars, seqVars, sleepFrom,
                   mainPc, args, all_results, earlier, firstRun, reports, call>>

NextPercentile == Percentile

SpecPercentile == InitPercentile /\ [][NextPercentile]_vars

\* -------------------------- calculate_statistics, detect_outliers, patterns

\* The median of a sorted list (lines 43-47).
MedianOf(sorted_times) ==
    LET n == Len(sorted_times)
    IN IF n % 2 = 1
       THEN Q(sorted_times[n \div 2 + 1], 1)
       ELSE Q(sorted_times[n \div 2] + sorted_times[n \div 2 + 1], 2)

calculate_statistics_raises(response_times) ==
    IF response_times = <<>>
    THEN {}
    ELSE div_raises(Len(response_times))
         \cup extreme_raises(response_times)
         \cup sqrt_raises(pvariance(response_times))
         \cup (IF Variations(response_times) # <<>>
               THEN div_raises(Len(Variations(response_times)))
                    \cup extreme_raises(Variations(response_times))
               ELSE {})

\* calculate_statistics(response_times) (lines 33-98).  The percentiles are
\* computed in floating point; cv is std_dev / mean, kept as its two terms.
calculate_statistics(response_times) ==
    IF response_times = <<>>
    THEN EmptyDict
    ELSE LET n == Len(response_times)
             sorted_times == Sorted(response_times)
             floats == [k \in 1..n |-> FromInt(sorted_times[k])]
             variations == Variations(response_times)
         IN [n |-> n,
             mean |-> mean(response_times),
             median |-> MedianOf(sorted_times),
             std_dev |-> pstdev(response_times),
             min |-> Min(response_times),
             max |-> Max(response_times),
             range |-> Max(response_times) - Min(response_times),
             p25 |-> percentile(floats, 25),
             p75 |-> percentile(floats, 75),
             p95 |-> percentile(floats, 95),
             p99 |-> percentile(floats, 99),
             cv |-> IF Sum(response_times) # 0
                    THEN [std_dev |-> pstdev(response_times),
                          over |-> mean(response_times)]
                    ELSE [std_dev |-> ZeroDeviation, over |-> Q(1, 1)],
             avg_variation |->
                 IF variations # <<>> THEN mean(variations) ELSE Q(0, 1),
             max_variation |->
                 IF variations # <<>> THEN Max(variations) ELSE 0,
             iqr |-> FSub(percentile(floats, 75), percentile(floats, 25))]

\* The methods detect_outliers of analyze_timing.py is called with (lines
\* 240-241), and one it does not know.
Methods == {"zscore", "iqr", "other"}

\* sorted_times[index] raises IndexError outside the list.
index_raises(xs, index) ==
    IF index < 0 \/ index >= Len(xs) THEN {"IndexError"} ELSE {}

detect_outliers_timing_raises(response_times, method) ==
    IF response_times = <<>>
    THEN {}
    ELSE IF method = "zscore"
    THEN div_raises(Len(response_times))
         \cup sqrt_raises(pvariance(response_times))
    ELSE IF method = "iqr"
    THEN index_raises(response_times, Len(response_times) \div 4)
         \cup index_raises(response_times, (3 * Len(response_times)) \div 4)
    ELSE {}

\* detect_outliers(response_times, method, threshold=2) of analyze_timing.py
\* (lines 101-131): the list of (index, time) found, None for a method that
\* is neither "zscore" nor "iqr".  time < q1 - 1.5 * iqr and
\* time > q3 + 1.5 * iqr are compared on the doubles.
detect_outliers_timing(response_times, method) ==
    IF response_times = <<>>
    THEN [list |-> EmptyList]
    ELSE IF method = "zscore"
    THEN [list |-> SelectSeq([k \in 1..Len(response_times) |-> k - 1],
              LAMBDA i : /\ pvariance(response_times).num # 0
                         /\ ZScoreAbove(response_times[i + 1],
                                        mean(response_times),
                                        pvariance(response_times), 2))]
    ELSE IF method = "iqr"
    THEN LET sorted_times == Sorted(response_times)
             n == Len(sorted_times)
             q1 == sorted_times[n \div 4 + 1]
             q3 == sorted_times[(3 * n) \div 4 + 1]
             iqr == q3 - q1
         IN [list |-> SelectSeq([k \in 1..n |-> k - 1],
                LAMBDA i : \/ 2 * response_times[i + 1] < 2 * q1 - 3 * iqr
                           \/ 2 * response_times[i + 1] > 2 * q3 + 3 * iqr)]
    ELSE [none |-> TRUE]

\* The rows of a results file: what load_timing_data reads back (lines
\* 20-25) from the results written.
DataOf(rs) ==
    [k \in 1..Len(rs) |-> [request_id |-> rs[k].request_id,
                           response_time_ms |-> rs[k].response_time,
                           success |-> rs[k].success]]

\* The sample size below which analyze_patterns gives up.
RegressionMinimum == 3

\* The successful rows of data: their response times and request ids.
SuccessfulTimes(data) ==
    LET ok == SelectSeq(data, LAMBDA d : d.success)
    IN [k \in 1..Len(ok) |-> ok[k].response_time_ms]
SuccessfulIds(data) ==
    LET ok == SelectSeq(data, LAMBDA d : d.success)
    IN [k \in 1..Len(ok) |-> ok[k].request_id]

analyze_patterns_raises(data) ==
    IF Len(data) < RegressionMinimum
       \/ Len(SuccessfulTimes(data)) < RegressionMinimum
    THEN {}
    ELSE div_raises(Len(SuccessfulTimes(data)))
         \cup sqrt_raises(pvariance(SuccessfulTimes(data)))
         \cup div_raises(Sum(SuccessfulTimes(data)))

\* analyze_patterns(data) (lines 134-190), of which the slope is kept: 0
\* when the denominator of the regression is 0 (lines 153-158).
analyze_patterns(data) ==
    IF Len(data) < RegressionMinimum
       \/ Len(SuccessfulTimes(data)) < RegressionMinimum
    THEN EmptyDict
    ELSE LET s == SlopeOf(SuccessfulIds(data), SuccessfulTimes(data))
         IN [slope |-> IF s.den # 0 THEN s ELSE Q(0, 1)]

\* -------------------------------------------- the analysis functions called

\* The sizes of a sample that is empty or too small.
SmallSizes == 0..2

\* The results a sample is made of: request k - 1 at position k, succeeded
\* or failed, with any response time and start time.
SmallResults ==
    UNION {[1..n -> [success : BOOLEAN, response_time : 0..MaxTimeMs,
                     start_time : 0..1]] : n \in SmallSizes}
WithIds(rs) ==
    [k \in 1..Len(rs) |-> [request_id |-> k - 1, success |-> rs[k].success,
                           response_time |-> rs[k].response_time,
                           start_time |-> rs[k].start_time]]

Functions ==
    {"analyze_results", "analyze_timing_patterns", "detect_outliers",
     "analyze_trend", "calculate_statistics", "detect_outliers_timing",
     "analyze_patterns"}

\* One of the analysis functions is about to be called on a small sample.
InitAnalysis ==
    \E rs \in SmallResults, f \in Functions, method \in Methods :
        /\ RunInit("analysis", NoArgs)
        /\ mainPc = "off"
        /\ args = {}
        /\ all_results = <<>>
        /\ earlier = {}
        /\ firstRun = None
        /\ reports = <<>>
        /\ call = Some([fn |-> f, results |-> WithIds(rs),
                        method |-> IF f = "detect_outliers_timing"
                                   THEN method ELSE "zscore"])
        /\ ret = None

\* The call of function f returns or raises.
Returns(f, outcome) ==
    /\ strategy = "analysis"
    /\ call # None
    /\ call[1].fn = f
    /\ ret = None
    /\ ret' = Some(outcome)
    /\ UNCHANGED <<strategy, cfg, pc, now, req, ready, results, semVars,
                   completionOrder, issueOrder, burstVars, seqVars, sleepFrom,
                   mainPc, args, all_results, earlier, firstRun, reports, call>>

Given == call[1].results

AnalyzeResults ==
    Returns("analyze_results",
            Outcome(analyze_results_raises(Given), analyze_results(Given)))

AnalyzeTimingPatterns ==
    Returns("analyze_timing_patterns",
            Outcome(analyze_timing_patterns_raises(Given),
                    analyze_timing_patterns(Given)))

DetectOutliers ==
    Returns("detect_outliers",
            Outcome(detect_outliers_raises(TimesOf(Given)),
                    detect_outliers(TimesOf(Given))))

AnalyzeTrend ==
    Returns("analyze_trend",
            Outcome(analyze_trend_raises(TimesOf(Given)),
                    analyze_trend(TimesOf(Given))))

CalculateStatistics ==
    Returns("calculate_statistics",
            Outcome(calculate_statistics_raises(SuccessfulTimes(DataOf(Given))),
                    calculate_statistics(SuccessfulTimes(DataOf(Given)))))

DetectOutliersTiming ==
    Returns("detect_outliers_timing",
            Outcome(detect_outliers_timing_raises(
                        SuccessfulTimes(DataOf(Given)), call[1].method),
                    detect_outliers_timing(
                        SuccessfulTimes(DataOf(Given)), call[1].method)))

AnalyzePatterns ==
    Returns("analyze_patterns",
            Outcome(analyze_patterns_raises(DataOf(Given)),
                    analyze_patterns(DataOf(Given))))

NextAnalysis ==
    \/ AnalyzeResults
    \/ AnalyzeTimingPatterns
    \/ DetectOutliers
    \/ AnalyzeTrend
    \/ CalculateStatistics
    \/ DetectOutliersTiming
    \/ AnalyzePatterns

SpecAnalysis == InitAnalysis /\ [][NextAnalysis]_vars

\* ------------------------------------- analyze_timing.categorize_performance

\* The grid the arguments are drawn from: every threshold of the function
\* (0.1, 0.25, 0.5; 500, 1000, 2000) is a point of it.
CvStep == 5
MeanStep == 50

\* The thresholds compared with <= instead of <.
categorize_performance_inclusive(cv, avg_time) ==
    LET consistency ==
            IF cv.num * 10 <= cv.den THEN "Excellent"
            ELSE IF cv.num * 4 <= cv.den THEN "Good"
            ELSE IF cv.num * 2 <= cv.den THEN "Fair"
            ELSE "Poor"
        speed ==
            IF avg_time <= 500 THEN "Fast"
            ELSE IF avg_time <= 1000 THEN "Moderate"
            ELSE IF avg_time <= 2000 THEN "Slow"
            ELSE "Very Slow"
    IN <<consistency, "", speed>>

\* categorize_performance(cv, avg_time) for cv = num / den with den > 0: the
\* tuple (consistency, consistency_desc, speed).  cv < 0.1, cv < 0.25 and
\* cv < 0.5 are compared exactly, as num * 10 < den, num * 4 < den and
\* num * 2 < den.
categorize_performance(cv, avg_time) ==
    LET consistency ==
            IF cv.num * 10 < cv.den THEN "Excellent"
            ELSE IF cv.num * 4 < cv.den THEN "Good"
            ELSE IF cv.num * 2 < cv.den THEN "Fair"
            ELSE "Poor"
        consistency_desc ==
            IF cv.num * 10 < cv.den
            THEN "Very low variation, highly predictable"
            ELSE IF cv.num * 4 < cv.den
            THEN "Low variation, reasonably predictable"
            ELSE IF cv.num * 2 < cv.den
            THEN "Moderate variation, somewhat unpredictable"
            ELSE "High variation, unpredictable performance"
        speed ==
            IF avg_time < 500 THEN "Fast"
            ELSE IF avg_time < 1000 THEN "Moderate"
            ELSE IF avg_time < 2000 THEN "Slow"
            ELSE "Very Slow"
    IN <<consistency, consistency_desc, speed>>

\* categorize_performance is about to be called with a cv and a mean of the
\* grid; no strategy runs.
InitCategorize ==
    \E k \in (-1)..MaxCvSteps, m \in 0..MaxMeanSteps :
        /\ RunInit("none", NoArgs)
        /\ mainPc = "off"
        /\ args = {}
        /\ all_results = <<>>
        /\ earlier = {}
        /\ firstRun = None
        /\ reports = <<>>
        /\ call = Some([cv |-> [num |-> k * CvStep, den |-> 100],
                        avg_time |-> m * MeanStep])
        /\ ret = None

\* The call returns.
Categorize ==
    /\ strategy = "none"
    /\ call # None
    /\ ret = None
    /\ ret' = Some(categorize_performance(call[1].cv, call[1].avg_time))
    /\ UNCHANGED <<strategy, cfg, pc, now, req, ready, results, semVars,
                   completionOrder, issueOrder, burstVars, seqVars, sleepFrom,
                   mainPc, args, all_results, earlier, firstRun, reports, call>>

NextCategorize == Categorize

SpecCategorize == InitCategorize /\ [][NextCategorize]_vars

\* -------------------------------------------------------------------- main

\* The strategies in the order main() runs them, and the one after s.
Strategies == {"burst", "ramp", "sustained", "concurrent"}
After(s) ==
    CASE s = "burst" -> "ramp"
      [] s = "ramp" -> "sustained"
      [] OTHER -> "concurrent"

\* The command lines: any choice of --burst, --ramp, --sustained and
\* --concurrent, or --all.
CommandLines == (SUBSET Strategies) \cup {{"all"}}

\* main() is entered: the environment of the whole invocation is drawn, no
\* strategy has been called.
InitMain ==
    \E f \in CommandLines, l \in 0..MaxMainLatency, p \in SuffixPatterns :
        /\ RunInit("burst", [NoArgs EXCEPT !.lat = <<l>>, !.suffix = p,
                                           !.server = "odd"])
        /\ mainPc = "start"
        /\ args = f
        /\ all_results = <<>>
        /\ earlier = {}
        /\ firstRun = None
        /\ reports = <<>>
        /\ call = None
        /\ ret = None

\* The arguments of the call of strategy s (lines 419, 426-428, 435, 442-444),
\* in the environment of the invocation.
MainArgs(s) ==
    LET env == [NoArgs EXCEPT !.lat = cfg.lat, !.suffix = cfg.suffix,
                              !.server = cfg.server]
    IN CASE s = "burst" ->
              [env EXCEPT !.burst_size = MainBurstSize,
                          !.burst_interval = MainBurstInterval]
         [] s = "ramp" ->
              [env EXCEPT !.start_rps = MainStartRps, !.end_rps = MainEndRps,
                          !.duration = MainRampDuration]
         [] s = "sustained" ->
              [env EXCEPT !.rps = MainRps, !.duration = MainSustainedDuration]
         [] OTHER ->
              [env EXCEPT !.concurrency = MainConcurrency,
                          !.total_requests = MainTotalRequests]

\* args.all or args.<s> (lines 417, 424, 433, 440).
Selected(s) == "all" \in args \/ s \in args

\* The key of strategy s in all_results (lines 421, 430, 437, 446).
ResultKey(s) ==
    CASE s = "burst" -> "burst_test"
      [] s = "ramp" -> "ramp_test"
      [] s = "sustained" -> "sustained_test"
      [] OTHER -> "concurrent_test"

\* main() goes on from strategy s to the `if` of the next one or, after the
\* last, to its end (line 455).
Advance(s) ==
    IF s = "concurrent"
    THEN mainPc' = "done" /\ strategy' = s
    ELSE mainPc' = "if" /\ strategy' = After(s)

\* Lines 408-409: with no strategy chosen, all are run.
MainStart ==
    /\ mainPc = "start"
    /\ args' = IF args = {} THEN {"all"} ELSE args
    /\ mainPc' = "if"
    /\ strategy' = "burst"
    /\ UNCHANGED <<cfg, pc, now, req, ready, results, semVars,
                   completionOrder, issueOrder, burstVars, seqVars, sleepFrom,
                   all_results, earlier, firstRun, reports, call, ret>>

\* The `if` of a strategy that was not chosen.
MainSkip ==
    /\ mainPc = "if"
    /\ ~Selected(strategy)
    /\ Advance(strategy)
    /\ UNCHANGED <<cfg, pc, now, req, ready, results, semVars,
                   completionOrder, issueOrder, burstVars, seqVars, sleepFrom,
                   args, all_results, earlier, firstRun, reports, call, ret>>

\* The `if` of a chosen strategy: the strategy is called and awaited.
MainCall ==
    /\ mainPc = "if"
    /\ Selected(strategy)
    /\ cfg' = MainArgs(strategy)
    /\ FreshRun
    /\ mainPc' = "await"
    /\ UNCHANGED <<strategy, now, args, all_results, earlier, firstRun,
                   reports, call, ret>>

\* The requests of the run in progress, as they are remembered once the run
\* is over.
Archive ==
    {[run |-> strategy, id |-> i, st |-> req[i].st, idval |-> IdvalOf(i),
      start |-> req[i].start, end |-> req[i].end] : i \in DOMAIN req}

\* The awaited strategy is over.  If it returned, its results are analysed
\* and stored in all_results and the report is printed (lines 420-422); an
\* exception of the strategy or of generate_report ends main().
MainCollect ==
    /\ mainPc = "await"
    /\ pc \in {"returned", "raised"}
    /\ LET stats == analyze_results(results)
           report == generate_report(TestName, stats)
       IN IF pc = "raised"
          THEN /\ mainPc' = "failed"
               /\ UNCHANGED <<strategy, all_results, reports>>
          ELSE /\ all_results' =
                      Append(all_results, [name |-> ResultKey(strategy),
                                           results |-> results,
                                           stats |-> stats])
               /\ IF report.raises # None
                  THEN mainPc' = "failed" /\ UNCHANGED <<strategy, reports>>
                  ELSE reports' = Append(reports, report) /\ Advance(strategy)
    /\ earlier' = earlier \cup Archive
    /\ pc' = "idle"
    /\ req' = NoRequests
    /\ ready' = <<>>
    /\ UNCHANGED <<cfg, now, results, semVars, completionOrder, issueOrder,
                   burstVars, seqVars, sleepFrom, args, firstRun, call, ret>>

\* Ctrl-C while main() awaits a strategy that is suspended: asyncio.run
\* cancels the main task, the CancelledError unwinds the strategy and main()
\* (send_request catches Exception only), every pending request is cancelled
\* with the session, and `results` and `all_results` go with their frames.
\* Line 461 prints a message; what was printed before stays printed.
Interrupt ==
    /\ mainPc = "await"
    /\ pc \in {"gather", "await", "sleep"}
    /\ mainPc' = "interrupted"
    /\ pc' = "cancelled"
    /\ req' = [i \in DOMAIN req |->
                  IF req[i].st = "done" THEN req[i]
                  ELSE [req[i] EXCEPT !.st = "cancelled"]]
    /\ ready' = <<>>
    /\ waiters' = <<>>
    /\ results' = <<>>
    /\ all_results' = <<>>
    /\ UNCHANGED <<strategy, cfg, now, semValue, completionOrder, issueOrder,
                   burstVars, seqVars, sleepFrom, args, earlier, firstRun,
                   reports, call, ret>>

NextMain ==
    \/ MainStart \/ MainSkip \/ MainCall \/ MainCollect \/ Interrupt
    \/ RunBurstTest \/ BurstGathered \/ BurstWake
    \/ RunConcurrentTest \/ ConcurrentGathered
    \/ RunRampTest \/ RampTest \/ RampBody
    \/ RunSustainedTest \/ SustainedTest \/ SeqResume \/ SeqWake
    \/ TaskStep \/ Respond \/ Tick

SpecMain == InitMain /\ [][NextMain]_vars

\* ======================================================== properties

\* ---------------------------------------------------------- send_request

\* The outcome and the RequestResult of a request whose send_request returned.
OutcomeOf(i) == req[i].out[1]
Returned(i) == ResultOf(i)

\* `error` is empty or absent.
ErrorEmpty(e) == e = None \/ e = Some("")

\* success is true iff error is empty or absent.
SuccessIffNoError(success, error) == success <=> ErrorEmpty(error)

\* C7: send_request never raises to its caller; for every transport outcome
\* it returns exactly one RequestResult, and for every transport failure
\* (timeout, connection error, unparsable body, non-object body) that result
\* has success = false, status_code = 0 and error = str(e).
C7_FailuresCaptured ==
    /\ pc # "raised"
    /\ (strategy = "send" /\ pc = "returned") =>
        /\ Len(results) = 1
        /\ Done = {cfg.send_id}
        /\ results[1] = Returned(cfg.send_id)
        /\ results[1].request_id = cfg.send_id
    /\ \A i \in Done :
        OutcomeOf(i).kind # "body" =>
            /\ Returned(i).success = FALSE
            /\ Returned(i).status_code = 0
            /\ Returned(i).error = Some(OutcomeOf(i).exc)

\* A request that timed out has returned its result to the caller.
C7_Witness ==
    /\ strategy = "send"
    /\ pc = "returned"
    /\ OutcomeOf(cfg.send_id).kind = "timeout"

\* C8 as stated: every RequestResult send_request produces has success true
\* iff error is empty or absent.
C8_Original ==
    \A i \in Done :
        SuccessIffNoError(Returned(i).success, Returned(i).error)

\* C8 as amended: a transport failure gives success = false with error =
\* str(e), which is empty exactly when the exception's text is; an object body
\* gives the body's own "success" (default false) and "error" (default
\* absent), so the equivalence holds for the result whenever it holds for the
\* body, and for every transport failure whose text is not empty.
C8_SuccessIffNoErrorWhenBodyConsistent ==
    \A i \in Done :
        LET o == OutcomeOf(i)
            r == Returned(i)
        IN IF o.kind = "body"
           THEN /\ r.success = Get(o.success, FALSE)
                /\ r.error = o.error
                /\ SuccessIffNoError(Get(o.success, FALSE), o.error)
                       => SuccessIffNoError(r.success, r.error)
           ELSE /\ r.success = FALSE
                /\ ErrorEmpty(r.error) <=> (o.exc = "")
                /\ o.exc # "" => SuccessIffNoError(r.success, r.error)

\* A body that reports success without an error, and one that omits
\* "success" and carries an error, have both been turned into results.
C8_Witness ==
    /\ strategy = "send"
    /\ pc = "returned"
    /\ OutcomeOf(cfg.send_id).kind = "body"
    /\ OutcomeOf(cfg.send_id).success = Some(TRUE)
    /\ OutcomeOf(cfg.send_id).error = None
    /\ Returned(cfg.send_id).success

\* ---------------------------------------------------- run_concurrent_test

\* C1: in run_concurrent_test the number of requests that have entered
\* send_request and not yet returned never exceeds `concurrency`.
C1_AtMostConcurrencyInFlight ==
    strategy = "concurrent" => Cardinality(InFlight) <= cfg.concurrency

\* The limiter is full while another task is queued on it.
C1_Witness ==
    /\ strategy = "concurrent"
    /\ cfg.concurrency >= 2
    /\ Cardinality(InFlight) = cfg.concurrency
    /\ \E i \in DOMAIN req : req[i].st = "waiting"

\* C2: run_concurrent_test returns exactly total_requests results and the
\* result at position i has request_id i, whatever the completion order.
C2_ResultsInRequestOrder ==
    (strategy = "concurrent" /\ pc = "returned") =>
        /\ Len(results) = cfg.total_requests
        /\ \A k \in 1..Len(results) : results[k].request_id = k - 1

\* The run returned although its requests finished out of request order.
C2_Witness ==
    /\ strategy = "concurrent"
    /\ pc = "returned"
    /\ cfg.total_requests >= 2
    /\ completionOrder # Range(0, cfg.total_requests)
    /\ Len(results) = cfg.total_requests

\* Request i has entered send_request / is queued on the semaphore.
Issued(i) == i \in DOMAIN req /\ req[i].st \in {"inflight", "responded", "done"}
Queued(i) == i \in DOMAIN req /\ req[i].st \in {"waiting", "woken"}

\* C3: with concurrency >= 1 and every issued request eventually returning,
\* every task is eventually issued, no task waits on the limiter forever, and
\* the run eventually returns.
C3_NoStarvation ==
    (cfg.concurrency >= 1) =>
        /\ <>(pc = "returned")
        /\ \A i \in 0..(MaxRequests - 1) :
               (i < cfg.total_requests) => <>Issued(i)
        /\ \A i \in 0..(MaxRequests - 1) : [](Queued(i) => <>Issued(i))

\* A run with more requests than permits has returned: some task had to wait.
C3_Witness ==
    /\ strategy = "concurrent"
    /\ pc = "returned"
    /\ cfg.concurrency >= 1
    /\ cfg.total_requests > cfg.concurrency
    /\ Len(completionOrder) = cfg.total_requests

\* ----------------------------------------------------------- run_burst_test

\* C4: run_burst_test returns exactly 5 * burst_size results, and the result at
\* position b * burst_size + i has request_id b * burst_size + i, for every
\* burst b and every i < burst_size, whatever order the requests of a burst
\* completed in.
C4_BurstResultsGrouped ==
    (strategy = "burst" /\ pc = "returned") =>
        /\ Len(results) = NumBursts * cfg.burst_size
        /\ \A b \in 0..(NumBursts - 1), i \in 0..(cfg.burst_size - 1) :
               results[b * cfg.burst_size + i + 1].request_id
                   = b * cfg.burst_size + i

\* The run returned, and the requests of its last burst finished out of
\* request order.
C4_Witness ==
    /\ strategy = "burst"
    /\ pc = "returned"
    /\ cfg.burst_size >= 2
    /\ Len(completionOrder) = cfg.burst_size
    /\ completionOrder # BurstIds(LastBurst)
    /\ Len(results) = NumBursts * cfg.burst_size

\* The burst request i belongs to.
BurstOf(i) == i \div cfg.burst_size

\* C5: in run_burst_test all in-flight requests belong to one burst, at most
\* burst_size are in flight, and while the loop sleeps between bursts every
\* request issued so far has returned.
C5_IdleGapAfterBurstCompletes ==
    strategy = "burst" =>
        /\ \A i \in InFlight, j \in InFlight : BurstOf(i) = BurstOf(j)
        /\ \A i \in InFlight : BurstOf(i) = burst
        /\ Cardinality(InFlight) <= cfg.burst_size
        /\ pc = "sleep" => (InFlight = {} /\ DOMAIN req = Done)

\* The loop sleeps after a later burst of two or more requests, all returned.
C5_Witness ==
    /\ strategy = "burst"
    /\ pc = "sleep"
    /\ burst >= 1
    /\ cfg.burst_size >= 2
    /\ Cardinality(Done) = (burst + 1) * cfg.burst_size

\* C6 as stated: the time between the start of burst b and the start of burst
\* b + 1 is burst_interval, however long the requests of burst b took.  It is
\* stated for the bursts whose sleep did not overrun (burst b + 1 started the
\* moment the sleep was due), so that only the requests' duration can refute
\* it.
C6_Original ==
    strategy = "burst" =>
        \A b \in 1..(Len(burstStarts) - 1) :
            burstStarts[b + 1] = burstEnds[b] + cfg.burst_interval
                => burstStarts[b + 1] - burstStarts[b] = cfg.burst_interval

\* C6 as amended: the sleep of burst_interval starts when burst b has
\* completed, so the time between the starts of bursts b and b + 1 is at
\* least the time burst b took to complete plus burst_interval.
C6_GapFollowsBurstCompletion ==
    strategy = "burst" =>
        /\ Len(burstEnds) <= Len(burstStarts)
        /\ \A b \in 1..Len(burstEnds) :
            /\ burstEnds[b] >= burstStarts[b]
            /\ \A k \in 1..cfg.burst_size :
                   LET i == (b - 1) * cfg.burst_size + k - 1
                   IN burstStarts[b] <= req[i].start /\ req[i].end <= burstEnds[b]
        /\ \A b \in 1..(Len(burstStarts) - 1) :
            burstStarts[b + 1] - burstStarts[b]
                >= (burstEnds[b] - burstStarts[b]) + cfg.burst_interval

\* A burst took time to complete and the next one started exactly
\* burst_interval after its completion: later than burst_interval after its
\* start.
C6_Witness ==
    /\ strategy = "burst"
    /\ cfg.burst_interval >= 1
    /\ \E b \in 1..(Len(burstStarts) - 1) :
        /\ burstEnds[b] > burstStarts[b]
        /\ burstStarts[b + 1] = burstEnds[b] + cfg.burst_interval
        /\ burstStarts[b + 1] - burstStarts[b] > cfg.burst_interval

\* ------------------------------------------- run_ramp_test, run_sustained_test

\* C9: in run_ramp_test and run_sustained_test at most one request is
\* outstanding, and the results are in strict issue order: the k-th result has
\* request_id k and request k was issued only after request k - 1 returned.
C9_SequentialIssueOrder ==
    strategy \in {"ramp", "sustained"} =>
        /\ Cardinality(InFlight) <= 1
        /\ \A k \in 1..Len(results) : results[k].request_id = k - 1
        /\ \A k \in 1..Len(results) : results[k] = Returned(k - 1)
        /\ issueOrder = Range(0, Len(issueOrder))
        /\ \A i \in DOMAIN req :
               i > 0 => (i - 1 \in Done /\ req[i - 1].end <= req[i].start)
        /\ \A i \in DOMAIN req : i \in Done <=> i < Len(results)

\* A run has returned three or more results.
C9_Witness ==
    /\ strategy \in {"ramp", "sustained"}
    /\ pc = "returned"
    /\ Len(results) >= 3

\* C10: in run_ramp_test the delay passed to asyncio.sleep is strictly
\* positive: 1 / current_rps when current_rps > 0, and 1 when current_rps <= 0.
C10_RampDelayPositive ==
    (strategy = "ramp" /\ pc \in {"await", "sleep"}) =>
        /\ delay.num > 0 /\ delay.den > 0
        /\ IF RatPositive(CurrentRps(elapsed))
           THEN delay.num * CurrentRps(elapsed).num
                    = delay.den * CurrentRps(elapsed).den
           ELSE delay.num = delay.den

\* A ramp that started at a positive rate sleeps with the fallback delay: the
\* interpolated rate has fallen to zero or below.
C10_Witness ==
    /\ strategy = "ramp"
    /\ pc = "sleep"
    /\ cfg.start_rps > 0
    /\ ~RatPositive(CurrentRps(elapsed))
    /\ delay = [num |-> 1, den |-> 1]

\* C11: run_sustained_test called with rps <= 0 does not raise and paces its
\* requests with the fallback delay of 1: whenever it awaits a request or
\* sleeps, its delay is 1.
C11_SustainedFallbackDelay ==
    (strategy = "sustained" /\ cfg.rps <= 0) =>
        /\ pc # "raised"
        /\ pc \in {"test", "await", "sleep"} => delay = [num |-> 1, den |-> 1]

\* ----------------------------------- ramp and sustained at the same rate

\* Two fractions with positive denominators are the same number.
RatEqual(p, q) == p.num * q.den = q.num * p.den

\* The rate of the run in progress when two runs are compared.
TwinRate == IF strategy = "ramp" THEN cfg.start_rps ELSE cfg.rps

\* C12: for r > 0, run_ramp_test(r, r, d) and run_sustained_test(r, d) under
\* the same clock and the same request latencies issue the same sequence of
\* request ids, sleep for the same delay 1 / r between requests, and return
\* the same number of results.
C12_RampAtConstantRateIsSustained ==
    /\ (mainPc \in {"first", "second"} /\ pc \in {"await", "sleep"}) =>
           delay.num * TwinRate = delay.den
    /\ (mainPc = "second" /\ pc = "returned") =>
           /\ issueOrder = firstRun[1].issued
           /\ Len(results) = Len(firstRun[1].results)
           /\ \A k \in 1..Len(results) :
                  results[k].request_id = firstRun[1].results[k].request_id
           /\ issueOrder # <<>> => RatEqual(delay, firstRun[1].delay)

\* Both runs have returned, at a rate of two or more, with two or more
\* results of which one took time to arrive.
C12_Witness ==
    /\ mainPc = "second"
    /\ pc = "returned"
    /\ cfg.rps >= 2
    /\ Len(results) >= 2
    /\ \E k \in 1..Len(results) : results[k].response_time > 0

\* ------------------------------------- run_concurrent_test, concurrency = 1

\* C13: with concurrency = 1 run_concurrent_test issues its requests in
\* ascending request_id order 0, 1, ..., N-1, at most one is outstanding, and
\* request i + 1 enters send_request only after request i has returned.
C13_ConcurrencyOneIsSequential ==
    (strategy = "concurrent" /\ cfg.concurrency = 1) =>
        /\ issueOrder = Range(0, Len(issueOrder))
        /\ Cardinality(InFlight) <= 1
        /\ \A i \in DOMAIN req :
               (Issued(i) /\ i > 0) =>
                   /\ req[i - 1].st = "done"
                   /\ req[i - 1].end <= req[i].start
        /\ pc = "returned" => Len(issueOrder) = cfg.total_requests

\* A run of three requests through one permit has returned, and a request
\* took time while the others were queued.
C13_Witness ==
    /\ strategy = "concurrent"
    /\ cfg.concurrency = 1
    /\ cfg.total_requests = 3
    /\ pc = "returned"
    /\ issueOrder = <<0, 1, 2>>
    /\ \E k \in 1..Len(results) : results[k].response_time > 0

\* ------------------------------------------- the end of a ramp/sustained run

\* The loop test observes an elapsed time below `duration`.
BelowDuration == now - start_time < cfg.duration

\* Every request issued by a ramp/sustained run that has returned from
\* send_request is in the results, and a run that has returned did so at or
\* after `duration`, with every request it issued completed and included.
CompletedIncluded ==
    /\ cfg.duration = 0 => issueOrder = <<>>
    /\ \A i \in Done : i < Len(results) /\ results[i + 1] = Returned(i)
    /\ pc = "returned" =>
           /\ now - start_time >= cfg.duration
           /\ InFlight = {}
           /\ DOMAIN req = Done
           /\ Len(results) = Len(issueOrder)

\* A step of the loop test: it goes on to a request only when it observed an
\* elapsed time below `duration`, and otherwise returns without issuing one.
StopsAtDuration ==
    /\ (pc = "test" /\ pc' # "test") =>
           IF BelowDuration
           THEN pc' \in {"body", "await"}
           ELSE pc' = "returned" /\ UNCHANGED <<req, issueOrder>>
    /\ issueOrder' # issueOrder =>
           pc = "body" \/ (pc = "test" /\ BelowDuration)
    /\ (pc' = "body" /\ pc # "body") => (pc = "test" /\ BelowDuration)
    /\ pc = "returned" => UNCHANGED <<req, issueOrder, results>>

\* The run is over: it returned its results, or raised before its loop.
Terminated == pc \in {"returned", "raised"}

\* C14: run_ramp_test and run_sustained_test issue no request once the loop
\* test has observed an elapsed time of `duration` or more (none at all when
\* duration = 0); every request issued, also one still in flight when
\* `duration` is reached, completes and is included in the results; and when
\* the clock advances and every request returns, the run terminates.
C14_LoopEndsAtDuration ==
    /\ [](strategy \in {"ramp", "sustained"} => CompletedIncluded)
    /\ [][StopsAtDuration]_vars
    /\ <>Terminated

\* A run has returned a result whose request was still in flight when
\* `duration` was reached.
C14_Witness ==
    /\ strategy \in {"ramp", "sustained"}
    /\ pc = "returned"
    /\ cfg.duration >= 1
    /\ \E k \in 1..Len(results) :
           /\ results[k].start_time - start_time < cfg.duration
           /\ results[k].end_time - start_time > cfg.duration

\* ------------------------------------------------- failures within a run

\* A sequence without repetition.
NoRepeats(q) == \A j \in 1..Len(q), k \in 1..Len(q) : q[j] = q[k] => j = k

\* The result recorded for request i is the one its send_request returned; a
\* transport failure is recorded as such.
Recorded(i) ==
    /\ i < Len(results)
    /\ results[i + 1] = Returned(i)
    /\ OutcomeOf(i).kind # "body" =>
           /\ results[i + 1].success = FALSE
           /\ results[i + 1].error = Some(OutcomeOf(i).exc)

\* C15: whatever requests fail, no request_id is sent twice, no run ends
\* because of a failure, and a run that returns has sent all its requests and
\* recorded one result per request: 5 * burst_size for run_burst_test,
\* total_requests for run_concurrent_test, and for ramp and sustained one per
\* loop iteration until `duration` has elapsed.
C15_FailuresNeitherAbortNorRetry ==
    /\ NoRepeats(issueOrder)
    /\ pc = "raised" => (strategy = "sustained" /\ cfg.rps = 0 /\ req = NoRequests)
    /\ strategy \in {"ramp", "sustained"} => \A i \in Done : Recorded(i)
    /\ pc = "returned" =>
           /\ Len(results) = Len(issueOrder)
           /\ \A i \in DOMAIN req : req[i].st = "done" /\ Recorded(i)
           /\ strategy = "burst" => Len(issueOrder) = NumBursts * cfg.burst_size
           /\ strategy = "concurrent" => Len(issueOrder) = cfg.total_requests
           /\ strategy \in {"ramp", "sustained"} =>
                  now - start_time >= cfg.duration

\* A burst run has returned all its results although requests of every burst
\* failed.
C15_Witness ==
    /\ strategy = "burst"
    /\ pc = "returned"
    /\ cfg.burst_size >= 2
    /\ Len(results) = NumBursts * cfg.burst_size
    /\ \A b \in 0..(NumBursts - 1) :
           \E k \in 1..cfg.burst_size :
               ~results[b * cfg.burst_size + k].success

\* ------------------------------------------------- reports without success

\* The report of the results of the run that has returned.
ReportOfRun == generate_report(TestName, analyze_results(results))

\* C17: for every run that returned no successful result, also one that
\* returned no result at all, analyze_results followed by generate_report
\* does not raise and returns the report that carries the "No successful
\* requests" marker.
C17_ZeroSuccessReportsMarker ==
    (pc = "returned" /\ \A k \in 1..Len(results) : ~results[k].success) =>
        /\ ReportOfRun.raises = None
        /\ ReportOfRun.failed
        /\ ReportOfRun.text = "No successful requests"

\* -------------------------------------------------------------------- main

\* The results main() still holds: those of the run in progress and those
\* stored in all_results.
HeldResults ==
    {results[k] : k \in 1..Len(results)}
        \cup UNION {{all_results[j].results[k] :
                        k \in 1..Len(all_results[j].results)} :
                    j \in 1..Len(all_results)}

\* C16: after an interrupt in the middle of a strategy run no request is in
\* flight or about to be issued, and the result of every request that had
\* returned before the interrupt, in that run or in an earlier one, is still
\* held for the analysis.
C16_InterruptKeepsPartialResults ==
    mainPc = "interrupted" =>
        /\ InFlight = {}
        /\ ready = <<>>
        /\ \A i \in Done : Returned(i) \in HeldResults
        /\ \A e \in earlier :
               \E j \in 1..Len(all_results) :
                   /\ all_results[j].name = ResultKey(e.run)
                   /\ e.id < Len(all_results[j].results)

\* The requests sent so far in this invocation: by the runs that are over and
\* by the run in progress.
SentSoFar ==
    {[run |-> e.run, id |-> e.id, idval |-> e.idval] : e \in earlier}
        \cup {[run |-> strategy, id |-> i, idval |-> IdvalOf(i)] :
                 i \in DOMAIN req}

\* C18: any two distinct requests of one invocation of main(), of the same
\* run or of different runs, carry different idvals, whatever random.randint
\* returned for them.
C18_IdvalsDistinct ==
    mainPc # "off" =>
        \A x \in SentSoFar, y \in SentSoFar :
            (x.run # y.run \/ x.id # y.id) => x.idval # y.idval

\* All four strategies have run with random.randint returning the same value
\* for every request.
C18_Witness ==
    /\ mainPc = "done"
    /\ cfg.suffix = "low"
    /\ \A s \in Strategies : \E e \in earlier : e.run = s
    /\ \E x \in SentSoFar, y \in SentSoFar : x.run = y.run /\ x.id # y.id

\* Strategy s runs before strategy t in main().
RunsBefore(s, t) ==
    \/ s = "burst" /\ t # "burst"
    \/ s = "ramp" /\ t \in {"sustained", "concurrent"}
    \/ s = "sustained" /\ t = "concurrent"

\* C19: in main() every run that is over had all its requests returned and
\* all their results stored when it ended, and every request of a later run
\* was sent after every request of an earlier run had returned: the requests
\* in flight belong to the one run in progress.
C19_RunsNeverInterleave ==
    mainPc # "off" =>
        /\ \A e \in earlier : e.st = "done"
        /\ \A e \in earlier : RunsBefore(e.run, strategy) \/ mainPc = "done"
        /\ \A e \in earlier, i \in DOMAIN req :
               Issued(i) => e.end <= req[i].start
        /\ \A e \in earlier, f \in earlier :
               RunsBefore(e.run, f.run) => e.end <= f.start
        /\ \A j \in 1..Len(all_results) :
               Len(all_results[j].results) =
                   Cardinality({e \in earlier :
                                   ResultKey(e.run) = all_results[j].name})

\* The last strategy has a request in flight after the three before it have
\* run, each with a request that took time.
C19_Witness ==
    /\ mainPc = "await"
    /\ strategy = "concurrent"
    /\ InFlight # {}
    /\ \A s \in Strategies \ {"concurrent"} :
           \E e \in earlier : e.run = s /\ e.end > e.start

\* ---------------------------------------------------- categorize_performance

\* The arguments of the call in hundredths (cv) and milliseconds (mean), and
\* the tiers it returned.
CvHundredths == call[1].cv.num
MeanMs == call[1].avg_time
Consistency == ret[1][1]
Speed == ret[1][3]

\* C20: categorize_performance returns exactly one consistency tier and one
\* speed tier for every cv and mean: Excellent iff cv < 0.1, Good iff
\* 0.1 <= cv < 0.25, Fair iff 0.25 <= cv < 0.5, Poor iff cv >= 0.5; Fast iff
\* mean < 500, Moderate iff 500 <= mean < 1000, Slow iff 1000 <= mean < 2000,
\* Very Slow iff mean >= 2000.  (0.05, 300) gives (Excellent, Fast) and
\* (0.6, 2500) gives (Poor, Very Slow).
C20_CategorizeTiers ==
    (strategy = "none" /\ ret # None) =>
        /\ call[1].cv.den = 100
        /\ Consistency \in {"Excellent", "Good", "Fair", "Poor"}
        /\ Consistency = "Excellent" <=> CvHundredths < 10
        /\ Consistency = "Good" <=> (10 <= CvHundredths /\ CvHundredths < 25)
        /\ Consistency = "Fair" <=> (25 <= CvHundredths /\ CvHundredths < 50)
        /\ Consistency = "Poor" <=> CvHundredths >= 50
        /\ Speed \in {"Fast", "Moderate", "Slow", "Very Slow"}
        /\ Speed = "Fast" <=> MeanMs < 500
        /\ Speed = "Moderate" <=> (500 <= MeanMs /\ MeanMs < 1000)
        /\ Speed = "Slow" <=> (1000 <= MeanMs /\ MeanMs < 2000)
        /\ Speed = "Very Slow" <=> MeanMs >= 2000
        /\ (CvHundredths = 5 /\ MeanMs = 300) =>
               (Consistency = "Excellent" /\ Speed = "Fast")
        /\ (CvHundredths = 60 /\ MeanMs = 2500) =>
               (Consistency = "Poor" /\ Speed = "Very Slow")

\* The call with cv = 0.1 and mean = 500, both on a threshold, has returned
\* the upper tiers.
C20_Witness ==
    /\ strategy = "none"
    /\ ret # None
    /\ CvHundredths = 10
    /\ MeanMs = 500
    /\ Consistency = "Good"
    /\ Speed = "Moderate"

\* ------------------------------------------------------ semaphore permits

\* The tasks that hold a permit: those inside `async with semaphore`, and
\* those a release has handed a permit to and that have not resumed yet.
PermitHolders ==
    {i \in DOMAIN req : req[i].st \in {"woken", "inflight", "responded"}}

\* The semaphore of the run exists.
SemaphoreCreated == strategy = "concurrent" /\ pc \in {"gather", "returned"}

\* C23 as stated: in every state of run_concurrent_test the permits available
\* plus the requests in flight (entered send_request, not yet returned) equal
\* `concurrency`.
C23_Original ==
    SemaphoreCreated => semValue + Cardinality(InFlight) = cfg.concurrency

\* C23: in run_concurrent_test every permit taken is given back exactly once,
\* also when the request fails: in every state the permits available plus the
\* tasks holding a permit (in flight, or handed a permit by a release and not
\* yet resumed) equal `concurrency`, a task that is done or queued holds none,
\* and when the run returns all `concurrency` permits are available again.
C23_PermitsConserved ==
    SemaphoreCreated =>
        /\ semValue >= 0
        /\ semValue + Cardinality(PermitHolders) = cfg.concurrency
        /\ pc = "returned" => semValue = cfg.concurrency

\* A run with more requests than permits has returned with a failed request
\* among its results.
C23_Witness ==
    /\ strategy = "concurrent"
    /\ pc = "returned"
    /\ cfg.concurrency >= 1
    /\ cfg.total_requests > cfg.concurrency
    /\ \E k \in 1..Len(results) : ~results[k].success
    /\ semValue = cfg.concurrency

\* ------------------------------------------------------- rate of the ramp

\* The fraction q lies between the integers a and b, whichever is larger.
RatBetween(q, a, b) ==
    LET lo == Min(<<a, b>>)
        hi == Max(<<a, b>>)
    IN IF q.den > 0
       THEN lo * q.den <= q.num /\ q.num <= hi * q.den
       ELSE lo * q.den >= q.num /\ q.num >= hi * q.den

\* C24: in run_ramp_test, for every request issued, the progress fraction
\* elapsed / duration used for the interpolation lies in [0, 1] and the rate
\* current_rps lies between start_rps and end_rps inclusive, although the
\* clock may advance between the loop test and the read of `elapsed`.
C24_RampRateWithinRange ==
    (strategy = "ramp" /\ issueOrder # <<>>) =>
        /\ 0 <= elapsed
        /\ elapsed <= cfg.duration
        /\ RatBetween(CurrentRps(elapsed), cfg.start_rps, cfg.end_rps)

\* ------------------------------------------------------------- percentile

\* The sample and the percentile of the call, and the value it returned.
Sample == call[1].data
Percent == call[1].p

\* C21: for every non-empty sorted data list and every 0 <= p <= q <= 100,
\* percentile(data, p) <= percentile(data, q); in particular no percentile
\* exceeds max (the last element, percentile(data, 100)) and iqr >= 0.
C21_PercentileMonotonic ==
    (strategy = "percentile" /\ ret # None) =>
        /\ \A q \in Percent..100 : FLeq(ret[1], percentile(Sample, q))
        /\ FLeq(ret[1], Sample[Len(Sample)])
        /\ Percent = 25 =>
               FLeq(Zero, FSub(percentile(Sample, 75), ret[1]))

\* --------------------------------------------------------- small samples

\* What the call returned, and the successful results it was given.
Value == ret[1].value[1]
Successes == SelectSeq(Given, LAMBDA r : r.success)
IsEmpty(v) == DOMAIN v = {}
IsZeroDeviation(s) == s.sqrt.num = 0

\* C22: called on a result list of size 0, 1 or 2, whatever the mix of
\* successes and failures, each analysis function returns without raising:
\* analyze_results {} for no result and the error marker for no success,
\* analyze_timing_patterns {} below 2 results, the detect_outliers of
\* advanced_benchmark.py a zero count, that of analyze_timing.py a list
\* (empty for no response time), analyze_trend "insufficient_data",
\* calculate_statistics {} for no response time, analyze_patterns {}; and a
\* standard deviation reported for fewer than 2 successes is 0.
C22_SmallSampleNeverRaises ==
    (strategy = "analysis" /\ ret # None /\ Len(Given) \in SmallSizes) =>
        /\ ret[1].raises = None
        /\ call[1].fn = "analyze_results" =>
               /\ Given = <<>> => IsEmpty(Value)
               /\ (Given # <<>> /\ Successes = <<>>) =>
                      DOMAIN Value = {"error"}
               /\ Len(Successes) = 1 =>
                      IsZeroDeviation(Value.response_times.std_dev)
        /\ call[1].fn = "analyze_timing_patterns" =>
               (Len(Given) < 2 => IsEmpty(Value))
        /\ call[1].fn = "detect_outliers" =>
               (Value.count = 0 /\ Value.percentage.num = 0)
        /\ call[1].fn = "analyze_trend" => Value = "insufficient_data"
        /\ call[1].fn = "calculate_statistics" =>
               /\ Successes = <<>> => IsEmpty(Value)
               /\ Len(Successes) = 1 => IsZeroDeviation(Value.std_dev)
        /\ call[1].fn = "detect_outliers_timing" =>
               (Successes = <<>> => Value.list = EmptyList)
        /\ call[1].fn = "analyze_patterns" => IsEmpty(Value)

\* analyze_results has returned the statistics of a sample of one success and
\* one failure, with a standard deviation of 0.
C22_Witness ==
    /\ strategy = "analysis"
    /\ ret # None
    /\ call[1].fn = "analyze_results"
    /\ Len(Given) = 2
    /\ Len(Successes) = 1
    /\ ret[1].raises = None
    /\ Value.successful_requests = 1
    /\ Value.failed_requests = 1
    /\ IsZeroDeviation(Value.response_times.std_dev)

====
